---- MODULE Spec2Model ----
(***************************************************************************)
(* A model of the ManageSieve client engine: the phase-typed Connection    *)
(* handle, its send/receive cycle, the capability table and the SASL loop  *)
(* of authenticate.                                                        *)
(***************************************************************************)
EXTENDS Integers, Sequences, FiniteSets, TLC

(***************************************************************************)
(* Bounds of the model.                                                    *)
(***************************************************************************)
\* number of calls (connect included) made in one run
MaxOps == 4
\* number of server challenge strings answered in one authenticate call
MaxRounds == 2

(***************************************************************************)
(* Option values: None is the empty tuple, Some(v) the one-element tuple.  *)
(***************************************************************************)
None == <<>>

Some(v) == <<v>>

IsSome(o) == o # <<>>

(***************************************************************************)
(* Capability entries as the parser produces them (parser/mod.rs).         *)
(* k is the enum variant, name the key of an Unknown entry, v the value.   *)
(***************************************************************************)
Capability(k, name, v) == [k |-> k, name |-> name, v |-> v]

CapImplementation(v) == Capability("Implementation", "", v)

CapSasl(v) == Capability("Sasl", "", v)

CapSieve(v) == Capability("Sieve", "", v)

CapStartTls == Capability("StartTls", "", "unit")

CapVersion(v) == Capability("Version", "", v)

CapUnknown(name, v) == Capability("Unknown", name, v)

CapMaxRedirects(v) == Capability("MaxRedirects", "", v)

CapNotify(v) == Capability("Notify", "", v)

CapLanguage(v) == Capability("Language", "", v)

CapOwner(v) == Capability("Owner", "", v)

\* the local variable of verify_capabilities that each variant is stored in
FieldOf(k) ==
    CASE k = "Implementation" -> "implementation"
      [] k = "Sasl" -> "sasl"
      [] k = "Sieve" -> "sieve"
      [] k = "StartTls" -> "start_tls"
      [] k = "MaxRedirects" -> "max_redirects"
      [] k = "Notify" -> "notify"
      [] k = "Language" -> "language"
      [] k = "Owner" -> "owner"
      [] k = "Version" -> "version"

\* the name verify_capabilities passes to try_set for each variant
TrySetName(k) ==
    CASE k = "Implementation" -> "IMPLEMENTATION"
      [] k = "Sasl" -> "SASL"
      [] k = "Sieve" -> "SIEVE"
      [] k = "StartTls" -> "STARTTLS"
      [] k = "MaxRedirects" -> "MAX_REDIRECTS"
      [] k = "Notify" -> "NOTIFY"
      [] k = "Language" -> "LANGUAGE"
      [] k = "Owner" -> "OWNER"
      [] k = "Version" -> "VERSION"

\* the locals of verify_capabilities before the loop
NoFields ==
    [implementation |-> None, sasl |-> None, sieve |-> None, start_tls |-> None,
     max_redirects |-> None, notify |-> None, language |-> None, owner |-> None,
     version |-> None, others |-> <<>>]

CapErr(e, capability) == [ok |-> FALSE, err |-> e, capability |-> capability]

\* try_set: Option::replace, then an error when the field was already set
try_set(acc, field, value, name) ==
    IF IsSome(acc[field])
    THEN CapErr("DuplicateCapability", name)
    ELSE [ok |-> TRUE, acc |-> [acc EXCEPT ![field] = Some(value)]]

\* variant: an unknown entry is checked but not stored
fold_capability_drops_unknown(acc, c) ==
    IF c.k = "Unknown"
    THEN IF c.name \in DOMAIN acc.others
         THEN CapErr("DuplicateCapability", c.name)
         ELSE [ok |-> TRUE, acc |-> acc]
    ELSE try_set(acc, FieldOf(c.k), c.v, TrySetName(c.k))

\* one iteration of the for loop of verify_capabilities
fold_capability(acc, c) ==
    IF c.k = "Unknown"
    THEN IF c.name \in DOMAIN acc.others
         THEN CapErr("DuplicateCapability", c.name)
         ELSE [ok |-> TRUE, acc |-> [acc EXCEPT !.others = (c.name :> c.v) @@ @]]
    ELSE try_set(acc, FieldOf(c.k), c.v, TrySetName(c.k))

RECURSIVE fold_capabilities(_, _, _)
fold_capabilities(capabilities, i, acc) ==
    IF i > Len(capabilities)
    THEN [ok |-> TRUE, acc |-> acc]
    ELSE LET r == fold_capability(acc, capabilities[i])
         IN  IF r.ok THEN fold_capabilities(capabilities, i + 1, r.acc) ELSE r

\* variant: the final match looks at sieve before implementation
build_capabilities_sieve_first(f) ==
    IF ~IsSome(f.sieve) THEN CapErr("MissingSieve", "")
    ELSE IF ~IsSome(f.implementation) THEN CapErr("MissingImplementation", "")
    ELSE IF ~IsSome(f.version) THEN CapErr("MissingVersion", "")
    ELSE [ok |-> TRUE, caps |-> f]

\* the final match of verify_capabilities on (implementation, sieve, version)
build_capabilities(f) ==
    IF ~IsSome(f.implementation) THEN CapErr("MissingImplementation", "")
    ELSE IF ~IsSome(f.sieve) THEN CapErr("MissingSieve", "")
    ELSE IF ~IsSome(f.version) THEN CapErr("MissingVersion", "")
    ELSE [ok |-> TRUE,
          caps |-> [implementation |-> f.implementation[1],
                    sasl |-> IF IsSome(f.sasl) THEN f.sasl[1] ELSE <<>>,
                    sieve |-> f.sieve[1],
                    start_tls |-> IsSome(f.start_tls),
                    max_redirects |-> f.max_redirects,
                    notify |-> f.notify,
                    language |-> f.language,
                    owner |-> f.owner,
                    version |-> f.version[1],
                    others |-> f.others]]

verify_capabilities(capabilities) ==
    LET r == fold_capabilities(capabilities, 1, NoFields)
    IN  IF r.ok THEN build_capabilities(r.acc) ELSE r

(***************************************************************************)
(* What the server can make a read deliver.  A message stands for the      *)
(* whole buffer accumulated when the parser decides; ioerr, eof and        *)
(* nonutf8 are the other ways next_response_inner can end.                 *)
(***************************************************************************)
Tags == {"OK", "NO", "BYE"}

\* response codes the operations look at, and one they do not
Codes == {"none", "SASL", "AUTH-TOO-WEAK", "ENCRYPT-NEEDED", "TRANSITION-NEEDED",
          "QUOTA/MAXSIZE", "NONEXISTENT"}

\* SASL payloads: a valid base64 string and one that is not base64
Payloads == {"b64", "notb64"}

\* the capability announcements a server sends in this model
AnnPlain == <<CapImplementation("dovecot"), CapSieve(<<"fileinto">>), CapVersion("1.0")>>

AnnStartTls ==
    <<CapImplementation("dovecot"), CapStartTls, CapSasl(<<"PLAIN">>),
      CapSieve(<<"fileinto">>), CapVersion("1.0")>>

AnnAfterAuth ==
    <<CapImplementation("dovecot"), CapSieve(<<"fileinto", "vacation">>),
      CapVersion("1.0"), CapUnknown("XTEST", None)>>

AnnNoVersion == <<CapImplementation("dovecot"), CapSieve(<<"fileinto">>)>>

AnnDuplicate ==
    <<CapImplementation("dovecot"), CapSieve(<<"fileinto">>), CapVersion("1.0"),
      CapSieve(<<"vacation">>)>>

Announcements == {AnnPlain, AnnStartTls, AnnAfterAuth, AnnNoVersion, AnnDuplicate}

Msg(shape, tag, code, data, list) ==
    [shape |-> shape, tag |-> tag, code |-> code, data |-> data, list |-> list,
     human |-> None]

\* the message m with the human-readable text h after its code
WithHuman(m, h) == [m EXCEPT !.human = Some(h)]

\* a response line TAG [code] [human] CRLF
RespMsgs ==
    {Msg("resp", t, c, "", <<>>) : t \in {"OK", "NO"}, c \in Codes \ {"SASL"}}
        \cup {Msg("resp", t, "SASL", d, <<>>) : t \in {"OK", "NO"}, d \in Payloads}
        \cup {Msg("resp", "BYE", "none", "", <<>>)}

\* NO lines with the three quota codes, one of them with a human text
QuotaMsgs ==
    {Msg("resp", "NO", "QUOTA", "", <<>>),
     Msg("resp", "NO", "QUOTA/MAXSCRIPTS", "", <<>>),
     WithHuman(Msg("resp", "NO", "QUOTA/MAXSIZE", "", <<>>), "too big")}

\* a bare sieve-string line (a SASL challenge)
StringMsgs == {Msg("string", "", "none", d, <<>>) : d \in Payloads}

\* capability lines followed by a response line
CapsMsgs ==
    {Msg("caps", "OK", "none", "", l) : l \in Announcements}
        \cup {Msg("caps", t, "none", "", AnnPlain) : t \in {"NO", "BYE"}}

\* a script literal followed by an OK line, script lines followed by a response line
OtherMsgs ==
    {Msg("script", "OK", "none", "", <<>>), Msg("garbage", "", "none", "", <<>>)}
        \cup {Msg("list", t, "none", "", <<>>) : t \in {"OK", "NO"}}

Messages == RespMsgs \cup QuotaMsgs \cup StringMsgs \cup CapsMsgs \cup OtherMsgs

ReadInputs ==
    Messages \cup {Msg(s, "", "none", "", <<>>) : s \in {"ioerr", "eof", "nonutf8"}}

(***************************************************************************)
(* The response parsers (parser/responses.rs), by the shape of message     *)
(* each accepts.  A parser yields [ok |-> TRUE, v |-> value] or a syntax   *)
(* error [ok |-> FALSE].                                                   *)
(***************************************************************************)
Response(m) == [tag |-> m.tag, code |-> m.code, data |-> m.data, human |-> m.human]

Parsed(v) == [ok |-> TRUE, v |-> v]

SyntaxError == [ok |-> FALSE]

response_ok(m) ==
    IF m.shape = "resp" /\ m.tag = "OK" THEN Parsed(Response(m)) ELSE SyntaxError

response_nobye(m) ==
    IF m.shape = "resp" /\ m.tag \in {"NO", "BYE"} THEN Parsed(Response(m)) ELSE SyntaxError

response_oknobye(m) ==
    IF response_ok(m).ok THEN response_ok(m) ELSE response_nobye(m)

\* repeat(0.., single_capability) followed by response_oknobye
response_capability(m) ==
    IF m.shape \in {"caps", "resp"}
    THEN Parsed([capabilities |-> m.list, response |-> Response(m)])
    ELSE SyntaxError

\* a sieve-string line (Left) or a response line (Right)
response_authenticate(m) ==
    IF m.shape = "string" THEN Parsed([side |-> "Left", data |-> m.data])
    ELSE IF response_oknobye(m).ok
         THEN Parsed([side |-> "Right", response |-> response_oknobye(m).v])
         ELSE SyntaxError

\* a script followed by an OK line (Left) or a NO/BYE line (Right)
response_getscript(m) ==
    IF m.shape = "script" THEN Parsed([side |-> "Left"])
    ELSE IF response_nobye(m).ok
         THEN Parsed([side |-> "Right", response |-> response_nobye(m).v])
         ELSE SyntaxError

\* zero or more script lines followed by a response line
response_listscripts(m) ==
    IF m.shape \in {"list", "resp"}
    THEN Parsed([scripts |-> m.shape, response |-> Response(m)])
    ELSE SyntaxError

Parse(parser, m) ==
    CASE parser = "response_ok" -> response_ok(m)
      [] parser = "response_nobye" -> response_nobye(m)
      [] parser = "response_oknobye" -> response_oknobye(m)
      [] parser = "response_capability" -> response_capability(m)
      [] parser = "response_authenticate" -> response_authenticate(m)
      [] parser = "response_getscript" -> response_getscript(m)
      [] parser = "response_listscripts" -> response_listscripts(m)

(***************************************************************************)
(* The send/receive primitives of client.rs.  An outcome is                *)
(*   [kind |-> "Ok" | "Err" | "Panic", v, err, closed]                     *)
(* where closed tells whether the primitive called stream.close().         *)
(***************************************************************************)
Ok(v) == [kind |-> "Ok", v |-> v, err |-> "", closed |-> FALSE]

Err(e, closed) == [kind |-> "Err", v |-> None, err |-> e, closed |-> closed]

Panic == [kind |-> "Panic", v |-> None, err |-> "panic", closed |-> FALSE]

\* the read loop: poll_read, from_utf8(..).unwrap(), terminated(parser, eof)
next_response_inner(parser, in) ==
    CASE in.shape = "ioerr" -> Err("Io", FALSE)
      [] in.shape = "eof" -> Err("UnexpectedEof", FALSE)
      [] in.shape = "nonutf8" -> Panic
      [] OTHER -> IF Parse(parser, in).ok
                  THEN Ok(Parse(parser, in).v)
                  ELSE Err("Syntax", FALSE)

\* on any error of the read loop, close the stream; a failed close is an Io error
next_response(parser, in, closeOk) ==
    LET res == next_response_inner(parser, in)
    IN  IF res.kind = "Err"
        THEN IF closeOk THEN Err(res.err, TRUE) ELSE Err("Io", TRUE)
        ELSE res

\* a BYE closes the stream and becomes the Bye error; OK and NO pass through
handle_bye(response, closeOk) ==
    IF response.tag = "BYE"
    THEN IF closeOk THEN Err("Bye", TRUE) ELSE Err("Io", TRUE)
    ELSE Ok(response)

\* write_all of the serialized command; on failure close, then the Io error
send_command(writeOk) ==
    IF writeOk THEN Ok(None) ELSE Err("Io", TRUE)

\* the state of the transport after stream.close() returned
AfterClose(closeOk) == IF closeOk THEN "closed" ELSE "closeFailed"

(***************************************************************************)
(* The state: the live Connection values, the running call and its locals, *)
(* the transport, and what went over the wire.                             *)
(***************************************************************************)
VARIABLES
    pc,               \* position of the running call, "idle" between calls
    self,             \* the Connection moved into the running call
    live,             \* the Connection values the caller holds
    transport,        \* "none", "open", "closed", "closeFailed" or "dropped"
    result,           \* what the last call returned
    trace,            \* wire and mechanism events of the current call
    ops,              \* calls started so far
    outstanding,      \* client lines written since the last parsed server message
    unflushed,        \* bytes were written since the last flush of the stream
    session,          \* the SASL session passed to authenticate
    client_finished,  \* local of authenticate
    rounds,           \* challenge strings answered in this authenticate call
    input,            \* the name given to have_space, or the argument of a
                      \* function applied on its own
    output            \* what that function returned

vars ==
    <<pc, self, live, transport, result, trace, ops, outstanding, unflushed,
      session, client_finished, rounds, input, output>>

\* Connection<STREAM, TLS, MODE>: the two phantom phases and the snapshot
Connection(id, tls, auth, caps) == [id |-> id, tls |-> tls, auth |-> auth, caps |-> caps]

NoConn == Connection(0, "", "", None)

\* what a call returned: kind is "Ok", "Err", "AuthError" (Authenticate::Error)
\* or "Panic"; conn tells whether a Connection came back with it
Res(op, kind, err, val, conn) ==
    [op |-> op, kind |-> kind, err |-> err, val |-> val, conn |-> conn]

NoSession == [init |-> "", oneshot |-> FALSE]

EvWrite(cmd) == <<"write", cmd>>

EvRead(in) == <<"read", in>>

EvClose == <<"close">>

EvResume(r) == <<"resume", r>>

EvTls(ok) == <<"tls", ok>>

\* the events of one next_response / handle_bye with outcome out
ReadEvents(in, out) == <<EvRead(in)>> \o (IF out.closed THEN <<EvClose>> ELSE <<>>)

Init ==
    /\ pc = "idle"
    /\ self = NoConn
    /\ live = {}
    /\ transport = "none"
    /\ result = Res("none", "", "", "", FALSE)
    /\ trace = <<>>
    /\ ops = 0
    /\ outstanding = 0
    /\ unflushed = FALSE
    /\ session = NoSession
    /\ client_finished = FALSE
    /\ rounds = 0
    /\ input = None
    /\ output = None

EvWriteFailed(cmd) == <<"write failed", cmd>>

\* a stream that goes out of scope without close() having been called
Dropped(tr) == IF tr = "open" THEN "dropped" ELSE tr

\* the transport after a primitive with outcome out ran on it
After(out, closeOk) == IF out.closed THEN AfterClose(closeOk) ELSE transport

\* the call returns res; the caller then holds rest and the returned conns
\* (at most one); without a returned Connection the stream goes out of scope
Return(res, rest, conns, tr, events) ==
    /\ pc' = "idle"
    /\ self' = NoConn
    /\ live' = rest \cup conns
    /\ transport' = IF conns = {} THEN Dropped(tr) ELSE tr
    /\ result' = res
    /\ trace' = events

\* the call returns the error (or panic) of a primitive; no Connection comes back
Fail(op, out, closeOk, rest, events) ==
    Return(Res(op, out.kind, out.err, "", FALSE), rest, {}, After(out, closeOk), events)

\* the locals of authenticate do not exist in any other call
NoAuthLocals ==
    /\ session' = NoSession
    /\ client_finished' = FALSE
    /\ rounds' = 0

\* variant: a method taking &mut self, the caller keeps the Connection
ConsumeByReference(c) == live

\* a method taking self by value: the caller gives up the Connection c
Consume(c) == live \ {c}

\* the Connection a call hands back carries the index of the call
Handle(tls, auth, caps) == Connection(ops, tls, auth, caps)

\* send_command at the start of a call on Connection c: the command is written
\* and the call waits for the response at position next, or the write fails
Begin(op, c, cmd, next) ==
    \E writeOk \in BOOLEAN :
        LET sent == send_command(writeOk)
        IN  IF sent.kind = "Ok"
            THEN /\ pc' = next
                 /\ self' = c
                 /\ live' = Consume(c)
                 /\ trace' = <<EvWrite(cmd)>>
                 /\ outstanding' = outstanding + 1
                 /\ unflushed' = TRUE
                 /\ result' = Res(op, "Running", "", "", FALSE)
                 /\ UNCHANGED transport
            ELSE /\ \E closeOk \in BOOLEAN :
                        Fail(op, sent, closeOk, Consume(c), <<EvWriteFailed(cmd), EvClose>>)
                 /\ UNCHANGED <<outstanding, unflushed>>

\* the outcomes of close() that matter for a primitive with outcome out
CloseChoices(out) == IF out.closed THEN BOOLEAN ELSE {TRUE}

\* variant: the match on the tag builds the Connection for NO as it does for OK
capability_exchange_accepts_no(in, closeOk) ==
    LET nr == next_response("response_capability", in, closeOk)
        hb == handle_bye(nr.v.response, closeOk)
        vc == verify_capabilities(nr.v.capabilities)
    IN  IF nr.kind # "Ok" THEN nr
        ELSE IF hb.kind # "Ok" THEN hb
        ELSE IF vc.ok THEN Ok(vc.caps)
        ELSE Err(vc.err, FALSE)

\* variant: the announcement is validated before the tag is looked at
capability_exchange_validates_first(in, closeOk) ==
    LET nr == next_response("response_capability", in, closeOk)
        hb == handle_bye(nr.v.response, closeOk)
        vc == verify_capabilities(nr.v.capabilities)
    IN  IF nr.kind # "Ok" THEN nr
        ELSE IF hb.kind # "Ok" THEN hb
        ELSE IF ~vc.ok THEN Err(vc.err, FALSE)
        ELSE IF hb.v.tag = "NO" THEN Err("UnexpectedNo", FALSE)
        ELSE Ok(vc.caps)

\* next_response(response_capability), handle_bye, the match on the tag and
\* verify_capabilities, as connect, start_tls and authenticate each do
capability_exchange(in, closeOk) ==
    LET nr == next_response("response_capability", in, closeOk)
        hb == handle_bye(nr.v.response, closeOk)
        vc == verify_capabilities(nr.v.capabilities)
    IN  IF nr.kind # "Ok" THEN nr
        ELSE IF hb.kind # "Ok" THEN hb
        ELSE IF hb.v.tag = "NO" THEN Err("UnexpectedNo", FALSE)
        ELSE IF vc.ok THEN Ok(vc.caps)
        ELSE Err(vc.err, FALSE)

\* a server message was read and parsed: nothing is outstanding any more
Answered(out) ==
    IF out.kind = "Panic" \/ out.err \in {"Io", "UnexpectedEof", "Syntax"}
    THEN outstanding
    ELSE 0

(***************************************************************************)
(* connect: read the greeting, build Connection<NoTls, Unauthenticated>.   *)
(* A run follows one transport from the moment connect is given it.        *)
(***************************************************************************)
Connect ==
    /\ pc = "idle"
    /\ transport = "none"
    /\ live = {}
    /\ ops < MaxOps
    /\ ops' = ops + 1
    /\ \E in \in ReadInputs : \E closeOk \in CloseChoices(capability_exchange(in, TRUE)) :
        LET out == capability_exchange(in, closeOk)
            tr == IF out.closed THEN AfterClose(closeOk) ELSE "open"
        IN  /\ outstanding' = 0
            /\ unflushed' = FALSE
            /\ IF out.kind = "Ok"
               THEN Return(Res("connect", "Ok", "", "", TRUE), {},
                           {Connection(ops', "Plain", "Unauth", out.v)}, tr,
                           ReadEvents(in, out))
               ELSE Return(Res("connect", out.kind, out.err, "", FALSE), {}, {}, tr,
                           ReadEvents(in, out))
    /\ NoAuthLocals
    /\ UNCHANGED <<input, output>>

(***************************************************************************)
(* start_tls, on Connection<NoTls, Unauthenticated> only.                  *)
(***************************************************************************)
\* variant: start_tls implemented for every authentication phase
start_tls_accepts_any_mode(c) == c.tls = "Plain"

\* impl Connection<STREAM, NoTls, Unauthenticated>
start_tls_accepts(c) == c.tls = "Plain" /\ c.auth = "Unauth"

\* variant: start_tls without the guard on the snapshot
start_tls_always_supported(caps) == TRUE

\* the guard of start_tls on the snapshot
start_tls_supported(caps) == caps.start_tls

StartTls ==
    /\ pc = "idle"
    /\ ops < MaxOps
    /\ ops' = ops + 1
    /\ \E c \in live :
        /\ start_tls_accepts(c)
        /\ IF ~start_tls_supported(c.caps)
           THEN /\ Return(Res("start_tls", "Err", "Unsupported", "", FALSE),
                          Consume(c), {}, transport, <<>>)
                /\ UNCHANGED <<outstanding, unflushed>>
           ELSE Begin("start_tls", c, "STARTTLS", "start_tls_read")
    /\ NoAuthLocals
    /\ UNCHANGED <<input, output>>

\* the STARTTLS reply is parsed with response_ok
StartTlsRead ==
    /\ pc = "start_tls_read"
    /\ \E in \in ReadInputs : \E closeOk \in CloseChoices(next_response("response_ok", in, TRUE)) :
        LET out == next_response("response_ok", in, closeOk)
        IN  /\ outstanding' = Answered(out)
            /\ IF out.kind = "Ok"
               THEN /\ pc' = "start_tls_upgrade"
                    /\ trace' = trace \o ReadEvents(in, out)
                    /\ UNCHANGED <<self, live, transport, result>>
               ELSE Fail("start_tls", out, closeOk, live, trace \o ReadEvents(in, out))
    /\ UNCHANGED <<ops, unflushed, session, client_finished, rounds>>
    /\ UNCHANGED <<input, output>>

\* TlsConnector::connect consumes the plain stream; its failure is an Io error
StartTlsUpgrade ==
    /\ pc = "start_tls_upgrade"
    /\ \E tlsOk \in BOOLEAN :
        IF tlsOk
        THEN /\ pc' = "start_tls_caps"
             /\ trace' = Append(trace, EvTls(TRUE))
             /\ UNCHANGED <<self, live, transport, result>>
        ELSE Return(Res("start_tls", "Err", "Io", "", FALSE), live, {}, transport,
                    Append(trace, EvTls(FALSE)))
    /\ UNCHANGED <<ops, outstanding, unflushed, session, client_finished, rounds>>
    /\ UNCHANGED <<input, output>>

\* variant: mechanisms announced before the upgrade are kept when the new
\* announcement names none
StartTlsCaps_keeps_sasl ==
    /\ pc = "start_tls_caps"
    /\ \E in \in ReadInputs : \E closeOk \in CloseChoices(capability_exchange(in, TRUE)) :
        LET out == capability_exchange(in, closeOk)
        IN  /\ outstanding' = Answered(out)
            /\ IF out.kind = "Ok"
               THEN Return(Res("start_tls", "Ok", "", "", TRUE), live,
                           {Handle("Tls", "Unauth",
                                   [out.v EXCEPT !.sasl = IF @ = <<>> THEN self.caps.sasl
                                                          ELSE @])},
                           transport, trace \o ReadEvents(in, out))
               ELSE Fail("start_tls", out, closeOk, live, trace \o ReadEvents(in, out))
    /\ UNCHANGED <<ops, unflushed, session, client_finished, rounds>>
    /\ UNCHANGED <<input, output>>

\* the announcement the server sends after the handshake is read; no command
\* is written for it
StartTlsCaps ==
    /\ pc = "start_tls_caps"
    /\ \E in \in ReadInputs : \E closeOk \in CloseChoices(capability_exchange(in, TRUE)) :
        LET out == capability_exchange(in, closeOk)
        IN  /\ outstanding' = Answered(out)
            /\ IF out.kind = "Ok"
               THEN Return(Res("start_tls", "Ok", "", "", TRUE), live,
                           {Handle("Tls", "Unauth", out.v)}, transport,
                           trace \o ReadEvents(in, out))
               ELSE Fail("start_tls", out, closeOk, live, trace \o ReadEvents(in, out))
    /\ UNCHANGED <<ops, unflushed, session, client_finished, rounds>>
    /\ UNCHANGED <<input, output>>

(***************************************************************************)
(* authenticate, on Connection<_, Unauthenticated>.                        *)
(***************************************************************************)
\* the SASL sessions: SaslFn without and with initial response, and the
\* one-shot (name, bytes) session whose resume panics
Sessions ==
    {[init |-> "None", oneshot |-> FALSE],
     [init |-> "Yielded", oneshot |-> FALSE],
     [init |-> "Complete", oneshot |-> TRUE]}

\* what the mechanism's step function can return
ResumeResults == {"Yielded", "Complete", "CompleteWithFinalResponse", "Error"}

has_response(state) == state \in {"CompleteWithFinalResponse", "Yielded"}

is_finished(state) == state \in {"CompleteWithFinalResponse", "Complete"}

\* Sasl::resume: the one-shot session panics, any other returns what it likes
resume(sess, r) == IF sess.oneshot THEN "Panic" ELSE r

\* STANDARD.decode(..).unwrap()
decode_panics(data) == data = "notb64"

\* how one iteration of the loop of authenticate goes on after its read:
\* next is "return", "panic", "continue" (write the client response),
\* "abort" (write "*") or "break" (leave the loop)
AuthStep(next, kind, err, conn, finished, resumed) ==
    [next |-> next, kind |-> kind, err |-> err, conn |-> conn,
     finished |-> finished, resumed |-> resumed]

\* variant: the error of the mechanism is returned at once, as it is for an
\* OK with data, without the abort
on_challenge_error_returns(finished, data, r) ==
    IF finished
    THEN AuthStep("return", "AuthError", "UnexpectedServerResponse", TRUE, finished, FALSE)
    ELSE IF decode_panics(data)
    THEN AuthStep("panic", "Panic", "panic", FALSE, finished, FALSE)
    ELSE IF r = "Panic"
    THEN AuthStep("panic", "Panic", "panic", FALSE, finished, TRUE)
    ELSE IF r = "Error"
    THEN AuthStep("return", "AuthError", "SaslError", TRUE, finished, TRUE)
    ELSE AuthStep("continue", "", "", FALSE, is_finished(r), TRUE)

\* Either::Left: the server sent a challenge string
on_challenge(finished, data, r) ==
    IF finished
    THEN AuthStep("return", "AuthError", "UnexpectedServerResponse", TRUE, finished, FALSE)
    ELSE IF decode_panics(data)
    THEN AuthStep("panic", "Panic", "panic", FALSE, finished, FALSE)
    ELSE IF r = "Panic"
    THEN AuthStep("panic", "Panic", "panic", FALSE, finished, TRUE)
    ELSE IF r = "Error"
    THEN AuthStep("abort", "AuthError", "SaslError", TRUE, finished, TRUE)
    ELSE AuthStep("continue", "", "", FALSE, is_finished(r), TRUE)

\* variant: the data of an OK is handed to the mechanism whether or not the
\* client is finished
on_ok_with_data_ignores_finished(finished, data, r) ==
    IF decode_panics(data)
    THEN AuthStep("panic", "Panic", "panic", FALSE, finished, FALSE)
    ELSE IF r = "Panic"
    THEN AuthStep("panic", "Panic", "panic", FALSE, finished, TRUE)
    ELSE IF r = "Error"
    THEN AuthStep("return", "AuthError", "SaslError", TRUE, finished, TRUE)
    ELSE IF ~has_response(r)
    THEN AuthStep("break", "", "", FALSE, finished, TRUE)
    ELSE AuthStep("return", "AuthError", "UnexpectedOk", TRUE, finished, TRUE)

\* (Tag::Ok, Some(ResponseCode::Sasl(data)))
on_ok_with_data(finished, data, r) ==
    IF finished
    THEN AuthStep("return", "AuthError", "UnexpectedServerResponse", TRUE, finished, FALSE)
    ELSE IF decode_panics(data)
    THEN AuthStep("panic", "Panic", "panic", FALSE, finished, FALSE)
    ELSE IF r = "Panic"
    THEN AuthStep("panic", "Panic", "panic", FALSE, finished, TRUE)
    ELSE IF r = "Error"
    THEN AuthStep("return", "AuthError", "SaslError", TRUE, finished, TRUE)
    ELSE IF ~has_response(r)
    THEN AuthStep("break", "", "", FALSE, finished, TRUE)
    ELSE AuthStep("return", "AuthError", "UnexpectedOk", TRUE, finished, TRUE)

\* variant: UnexpectedOk hands the Connection back as the other errors do
on_ok_without_data_returns_connection(finished) ==
    IF finished
    THEN AuthStep("break", "", "", FALSE, finished, FALSE)
    ELSE AuthStep("return", "AuthError", "UnexpectedOk", TRUE, finished, FALSE)

\* variant: an OK without data ends the loop whatever the client thinks
on_ok_without_data_always_breaks(finished) ==
    AuthStep("break", "", "", FALSE, finished, FALSE)

\* (Tag::Ok, _)
on_ok_without_data(finished) ==
    IF finished
    THEN AuthStep("break", "", "", FALSE, finished, FALSE)
    ELSE AuthStep("return", "AuthError", "UnexpectedOk", FALSE, finished, FALSE)

\* variant: TRANSITION-NEEDED is missing from the match on the code
on_no_without_transition(finished, code) ==
    CASE code = "AUTH-TOO-WEAK" ->
            AuthStep("return", "AuthError", "AuthTooWeak", TRUE, finished, FALSE)
      [] code = "ENCRYPT-NEEDED" ->
            AuthStep("return", "AuthError", "EncryptNeeded", TRUE, finished, FALSE)
      [] OTHER -> AuthStep("return", "Err", "UnexpectedNo", FALSE, finished, FALSE)

\* (Tag::No, code)
on_no(finished, code) ==
    CASE code = "AUTH-TOO-WEAK" ->
            AuthStep("return", "AuthError", "AuthTooWeak", TRUE, finished, FALSE)
      [] code = "ENCRYPT-NEEDED" ->
            AuthStep("return", "AuthError", "EncryptNeeded", TRUE, finished, FALSE)
      [] code = "TRANSITION-NEEDED" ->
            AuthStep("return", "AuthError", "TransitionNeeded", TRUE, finished, FALSE)
      [] OTHER -> AuthStep("return", "Err", "UnexpectedNo", FALSE, finished, FALSE)

\* variant: the two guards on client_finished are missing, SASL data is
\* always handed to the mechanism
auth_step_unguarded(finished, v, r) ==
    IF v.side = "Left" THEN on_challenge(FALSE, v.data, r)
    ELSE IF v.response.tag = "OK" /\ v.response.code = "SASL"
    THEN on_ok_with_data(FALSE, v.response.data, r)
    ELSE IF v.response.tag = "OK" THEN on_ok_without_data(finished)
    ELSE on_no(finished, v.response.code)

\* the match on what response_authenticate delivered
auth_step(finished, v, r) ==
    IF v.side = "Left" THEN on_challenge(finished, v.data, r)
    ELSE IF v.response.tag = "OK" /\ v.response.code = "SASL"
    THEN on_ok_with_data(finished, v.response.data, r)
    ELSE IF v.response.tag = "OK" THEN on_ok_without_data(finished)
    ELSE on_no(finished, v.response.code)

\* the line written after a step that goes on, and where its answer is read
NextWrite(next) ==
    CASE next = "continue" -> "sasl_string"
      [] next = "abort" -> "*"
      [] next = "break" -> "CAPABILITY"

\* variant: the break is missing, after the OK the loop reads again
NextPc_without_break(next) ==
    CASE next = "continue" -> "auth_read"
      [] next = "abort" -> "auth_abort_read"
      [] next = "break" -> "auth_read"

NextPc(next) ==
    CASE next = "continue" -> "auth_read"
      [] next = "abort" -> "auth_abort_read"
      [] next = "break" -> "auth_caps_read"

\* variant: the client never starts out finished
initial_finished_never(init) == FALSE

\* the match on sasl.init: only InitialSaslState::Complete starts finished
initial_finished(init) == init = "Complete"

\* impl Connection<STREAM, TLS, Unauthenticated>
authenticate_accepts(c) == c.auth = "Unauth"

Authenticate ==
    /\ pc = "idle"
    /\ ops < MaxOps
    /\ ops' = ops + 1
    /\ \E c \in live, s \in Sessions :
        /\ authenticate_accepts(c)
        /\ session' = s
        /\ client_finished' = initial_finished(s.init)
        /\ rounds' = 0
        /\ Begin("authenticate", c,
                 IF s.init = "None" THEN "AUTHENTICATE name" ELSE "AUTHENTICATE name initial",
                 "auth_read")
    /\ UNCHANGED <<input, output>>

\* one iteration of the loop: read, interpret, and write the next line
AuthRead ==
    /\ pc = "auth_read"
    /\ \E in \in ReadInputs :
        LET nr == next_response("response_authenticate", in, TRUE)
            hb == handle_bye(nr.v.response, TRUE)
            read == IF nr.kind = "Ok" /\ nr.v.side = "Right" THEN hb ELSE nr
            resumes == auth_step(client_finished, nr.v, "Yielded").resumed
        IN  /\ (nr.kind = "Ok" /\ nr.v.side = "Left" /\ ~client_finished) => rounds < MaxRounds
            /\ IF read.kind # "Ok"
               THEN /\ \E closeOk \in CloseChoices(read) :
                        LET nrc == next_response("response_authenticate", in, closeOk)
                            out == IF nrc.kind = "Ok" THEN handle_bye(nrc.v.response, closeOk)
                                   ELSE nrc
                        IN  Fail("authenticate", out, closeOk, live, trace \o ReadEvents(in, out))
                    /\ outstanding' = Answered(read)
                    /\ UNCHANGED <<unflushed, client_finished, rounds>>
               ELSE \E rr \in (IF resumes THEN ResumeResults ELSE {"Yielded"}) :
                    LET r == resume(session, rr)
                        st == auth_step(client_finished, nr.v, r)
                        events == trace \o <<EvRead(in)>>
                                      \o (IF st.resumed THEN <<EvResume(r)>> ELSE <<>>)
                    IN  IF st.next \in {"return", "panic"}
                        THEN /\ Return(Res("authenticate", st.kind, st.err, "", st.conn), live,
                                       IF st.conn THEN {Handle(self.tls, "Unauth", self.caps)}
                                       ELSE {},
                                       transport, events)
                             /\ outstanding' = 0
                             /\ UNCHANGED <<unflushed, client_finished, rounds>>
                        ELSE \E writeOk \in BOOLEAN :
                             IF send_command(writeOk).kind = "Ok"
                             THEN /\ pc' = NextPc(st.next)
                                  /\ trace' = Append(events, EvWrite(NextWrite(st.next)))
                                  /\ outstanding' = 1
                                  /\ unflushed' = TRUE
                                  /\ client_finished' = st.finished
                                  /\ rounds' = IF st.next = "continue" THEN rounds + 1 ELSE rounds
                                  /\ UNCHANGED <<self, live, transport, result>>
                             ELSE /\ \E closeOk \in BOOLEAN :
                                      Fail("authenticate", send_command(writeOk), closeOk, live,
                                           events \o <<EvWriteFailed(NextWrite(st.next)), EvClose>>)
                                  /\ outstanding' = 0
                                  /\ UNCHANGED <<unflushed, client_finished, rounds>>
    /\ UNCHANGED <<ops, session>>
    /\ UNCHANGED <<input, output>>

\* variant: after the "*" the mechanism error is returned at once, the
\* server's answer to the abort is left unread
AuthAbortNoRead ==
    /\ pc = "auth_abort_read"
    /\ Return(Res("authenticate", "AuthError", "SaslError", "", TRUE), live,
              {Handle(self.tls, "Unauth", self.caps)}, transport, trace)
    /\ UNCHANGED <<ops, outstanding, unflushed, session, client_finished, rounds>>
    /\ UNCHANGED <<input, output>>

\* after the "*": the NO or BYE is read, then the mechanism error is returned
AuthAbortRead ==
    /\ pc = "auth_abort_read"
    /\ \E in \in ReadInputs :
        LET nr == next_response("response_nobye", in, TRUE)
            read == IF nr.kind = "Ok" THEN handle_bye(nr.v, TRUE) ELSE nr
        IN  /\ outstanding' = Answered(read)
            /\ IF read.kind # "Ok"
               THEN \E closeOk \in CloseChoices(read) :
                        LET nrc == next_response("response_nobye", in, closeOk)
                            out == IF nrc.kind = "Ok" THEN handle_bye(nrc.v, closeOk) ELSE nrc
                        IN  Fail("authenticate", out, closeOk, live, trace \o ReadEvents(in, out))
               ELSE Return(Res("authenticate", "AuthError", "SaslError", "", TRUE), live,
                           {Handle(self.tls, "Unauth", self.caps)}, transport,
                           trace \o ReadEvents(in, read))
    /\ UNCHANGED <<ops, unflushed, session, client_finished, rounds>>
    /\ UNCHANGED <<input, output>>

\* the refresh: the answer to CAPABILITY becomes the snapshot of the
\* Connection<_, Authenticated>
AuthCapsRead ==
    /\ pc = "auth_caps_read"
    /\ \E in \in ReadInputs : \E closeOk \in CloseChoices(capability_exchange(in, TRUE)) :
        LET out == capability_exchange(in, closeOk)
        IN  /\ outstanding' = Answered(out)
            /\ IF out.kind = "Ok"
               THEN Return(Res("authenticate", "Ok", "", "Authenticated", TRUE), live,
                           {Handle(self.tls, "Auth", out.v)}, transport,
                           trace \o ReadEvents(in, out))
               ELSE Fail("authenticate", out, closeOk, live, trace \o ReadEvents(in, out))
    /\ UNCHANGED <<ops, unflushed, session, client_finished, rounds>>
    /\ UNCHANGED <<input, output>>

(***************************************************************************)
(* The script operations, on Connection<_, Authenticated>, and logout.     *)
(* Each X_result is the code of X after send_command: its value is the     *)
(* outcome of a failed primitive, or Ok(what the call returns).            *)
(***************************************************************************)
\* variant: the two ranges without their upper ends
is_bad_sieve_name_char_open_ranges(c) ==
    \/ c < 31
    \/ (c >= 127 /\ c < 159)
    \/ c = 8232
    \/ c = 8233

\* section 1.6 of RFC 5804, on a Unicode scalar value (the same function
\* is in sieve_name.rs and in internal/parser.rs)
is_bad_sieve_name_char(c) ==
    \/ c <= 31
    \/ (c >= 127 /\ c <= 159)
    \/ c = 8232
    \/ c = 8233

\* variant: only the first character of the name is looked at
to_sieve_name_fails_on_first(name) == Len(name) > 0 /\ is_bad_sieve_name_char(name[1])

\* to_sieve_name: name.chars().any(is_bad_sieve_name_char)
to_sieve_name_fails(name) == \E i \in 1..Len(name) : is_bad_sieve_name_char(name[i])

\* the script names given to have_space: "foo", "f\x07" and "f\u{2028}"
Names == {<<102, 111, 111>>, <<102, 7>>, <<102, 8232>>}

\* Caseless(lit) matches at the start of the code text
StartsWith(text, lit) ==
    \/ text = lit
    \/ (lit = "QUOTA" /\ text \in {"QUOTA/MAXSCRIPTS", "QUOTA/MAXSIZE"})

\* the quota alternatives of the code parser, in the order alt tries them
QuotaLiterals == <<"QUOTA/MAXSCRIPTS", "QUOTA/MAXSIZE", "QUOTA">>

QuotaValues == <<"MaxScripts", "MaxSize", "None">>

\* alt takes the first alternative that matches; the code is that
\* alternative's value when nothing of the text is left over
FirstMatch(lits, vals, text) ==
    LET hits == {k \in 1..Len(lits) : StartsWith(text, lits[k])}
        first == CHOOSE k \in hits : \A j \in hits : k <= j
    IN  IF hits = {} THEN ""
        ELSE IF lits[first] = text THEN vals[first]
        ELSE ""

\* variant: the bare QUOTA alternative is tried before the longer ones
QuotaVariantQuotaFirst(code) ==
    FirstMatch(<<"QUOTA", "QUOTA/MAXSCRIPTS", "QUOTA/MAXSIZE">>,
               <<"None", "MaxScripts", "MaxSize">>, code)

\* the quota variant the parser attaches to a QUOTA code
QuotaVariant(code) == FirstMatch(QuotaLiterals, QuotaValues, code)

IsQuota(code) == QuotaVariant(code) # ""

list_scripts_result(in, closeOk) ==
    LET nr == next_response("response_listscripts", in, closeOk)
        hb == handle_bye(nr.v.response, closeOk)
    IN  IF nr.kind # "Ok" THEN nr
        ELSE IF hb.kind # "Ok" THEN hb
        ELSE IF hb.v.tag = "NO"
        THEN Ok(Res("list_scripts", "Err", "UnexpectedNo", "", TRUE))
        ELSE Ok(Res("list_scripts", "Ok", "", "scripts", TRUE))

get_script_result(in, closeOk) ==
    LET nr == next_response("response_getscript", in, closeOk)
        hb == handle_bye(nr.v.response, closeOk)
    IN  IF nr.kind # "Ok" THEN nr
        ELSE IF nr.v.side = "Left" THEN Ok(Res("get_script", "Ok", "", "Ok", TRUE))
        ELSE IF hb.kind # "Ok" THEN hb
        ELSE IF hb.v.code = "NONEXISTENT"
        THEN Ok(Res("get_script", "Ok", "", "NonExistent", TRUE))
        ELSE Ok(Res("get_script", "Ok", "", "No", TRUE))

put_scripts_result(in, closeOk) ==
    LET nr == next_response("response_oknobye", in, closeOk)
        hb == handle_bye(nr.v, closeOk)
    IN  IF nr.kind # "Ok" THEN nr
        ELSE IF hb.kind # "Ok" THEN hb
        ELSE IF hb.v.tag = "OK" THEN Ok(Res("put_scripts", "Ok", "", "Ok", TRUE))
        ELSE IF IsQuota(hb.v.code)
        THEN Ok(Res("put_scripts", "Ok", "", "InsufficientQuota", TRUE))
        ELSE Ok(Res("put_scripts", "Ok", "", "InvalidScript", TRUE))

have_space_result(in, closeOk) ==
    LET nr == next_response("response_oknobye", in, closeOk)
        hb == handle_bye(nr.v, closeOk)
    IN  IF nr.kind # "Ok" THEN nr
        ELSE IF hb.kind # "Ok" THEN hb
        ELSE IF hb.v.tag = "OK" THEN Ok(Res("have_space", "Ok", "", "Yes", TRUE))
        ELSE IF IsQuota(hb.v.code)
        THEN Ok(Res("have_space", "Ok", "", <<"No", QuotaVariant(hb.v.code), hb.v.human>>, TRUE))
        ELSE Ok(Res("have_space", "Err", "UnexpectedNoResponseCode", "", TRUE))

check_script_result(in, closeOk) ==
    LET nr == next_response("response_oknobye", in, closeOk)
        hb == handle_bye(nr.v, closeOk)
    IN  IF nr.kind # "Ok" THEN nr
        ELSE IF hb.kind # "Ok" THEN hb
        ELSE IF hb.v.tag = "OK" THEN Ok(Res("check_script", "Ok", "", "Ok", TRUE))
        ELSE Ok(Res("check_script", "Ok", "", "InvalidScript", TRUE))

\* variant: on OK the call returns without closing the stream
logout_result_keeps_open(in, closeOk) ==
    LET nr == next_response("response_oknobye", in, closeOk)
        hb == handle_bye(nr.v, closeOk)
    IN  IF nr.kind # "Ok" THEN nr
        ELSE IF hb.kind # "Ok" THEN hb
        ELSE IF hb.v.tag = "NO" THEN Err("UnexpectedNo", FALSE)
        ELSE Ok(Res("logout", "Ok", "", "", FALSE))

\* logout: a NO is an error; on OK the stream is closed
logout_result(in, closeOk) ==
    LET nr == next_response("response_oknobye", in, closeOk)
        hb == handle_bye(nr.v, closeOk)
    IN  IF nr.kind # "Ok" THEN nr
        ELSE IF hb.kind # "Ok" THEN hb
        ELSE IF hb.v.tag = "NO" THEN Err("UnexpectedNo", FALSE)
        ELSE IF closeOk
        THEN [kind |-> "Ok", v |-> Res("logout", "Ok", "", "", FALSE), err |-> "",
              closed |-> TRUE]
        ELSE Err("Io", TRUE)

\* variant: the Connection a call hands back has its snapshot replaced
Finish_replaces_snapshot(op, in, closeOk, out) ==
    /\ outstanding' = Answered(out)
    /\ IF out.kind = "Ok"
       THEN Return(out.v, live,
                   IF out.v.conn
                   THEN {Handle(self.tls, self.auth, verify_capabilities(AnnPlain).caps)}
                   ELSE {},
                   After(out, closeOk), trace \o ReadEvents(in, out))
       ELSE Fail(op, out, closeOk, live, trace \o ReadEvents(in, out))
    /\ UNCHANGED <<ops, unflushed, session, client_finished, rounds>>

\* the second half of a call: its response in was read with outcome out and
\* the call returns, handing self back when the result says so
Finish(op, in, closeOk, out) ==
    /\ outstanding' = Answered(out)
    /\ IF out.kind = "Ok"
       THEN Return(out.v, live,
                   IF out.v.conn THEN {Handle(self.tls, self.auth, self.caps)} ELSE {},
                   After(out, closeOk), trace \o ReadEvents(in, out))
       ELSE Fail(op, out, closeOk, live, trace \o ReadEvents(in, out))
    /\ UNCHANGED <<ops, unflushed, session, client_finished, rounds>>

\* impl Connection<STREAM, TLS, Authenticated>
script_accepts(c) == c.auth = "Auth"

\* the first half of a call on Connection<_, Authenticated>
Start(op, cmd, position) ==
    /\ ops < MaxOps
    /\ ops' = ops + 1
    /\ \E c \in live :
        /\ script_accepts(c)
        /\ Begin(op, c, cmd, position)
    /\ NoAuthLocals

ListScripts ==
    /\ pc = "idle"
    /\ Start("list_scripts", "LISTSCRIPTS", "list_scripts_read")
    /\ UNCHANGED <<input, output>>

ListScriptsRead ==
    /\ pc = "list_scripts_read"
    /\ \E in \in ReadInputs : \E closeOk \in CloseChoices(list_scripts_result(in, TRUE)) :
        Finish("list_scripts", in, closeOk, list_scripts_result(in, closeOk))
    /\ UNCHANGED <<input, output>>

GetScript ==
    /\ pc = "idle"
    /\ Start("get_script", "GETSCRIPT", "get_script_read")
    /\ UNCHANGED <<input, output>>

GetScriptRead ==
    /\ pc = "get_script_read"
    /\ \E in \in ReadInputs : \E closeOk \in CloseChoices(get_script_result(in, TRUE)) :
        Finish("get_script", in, closeOk, get_script_result(in, closeOk))
    /\ UNCHANGED <<input, output>>

PutScripts ==
    /\ pc = "idle"
    /\ Start("put_scripts", "PUTSCRIPT", "put_scripts_read")
    /\ UNCHANGED <<input, output>>

PutScriptsRead ==
    /\ pc = "put_scripts_read"
    /\ \E in \in ReadInputs : \E closeOk \in CloseChoices(put_scripts_result(in, TRUE)) :
        Finish("put_scripts", in, closeOk, put_scripts_result(in, closeOk))
    /\ UNCHANGED <<input, output>>

CheckScript ==
    /\ pc = "idle"
    /\ Start("check_script", "CHECKSCRIPT", "check_script_read")
    /\ UNCHANGED <<input, output>>

CheckScriptRead ==
    /\ pc = "check_script_read"
    /\ \E in \in ReadInputs : \E closeOk \in CloseChoices(check_script_result(in, TRUE)) :
        Finish("check_script", in, closeOk, check_script_result(in, closeOk))
    /\ UNCHANGED <<input, output>>

\* have_space builds the command first: an illegal name returns the
\* Connection inside the error without any I/O
HaveSpace ==
    /\ pc = "idle"
    /\ ops < MaxOps
    /\ ops' = ops + 1
    /\ \E c \in live, name \in Names :
        /\ script_accepts(c)
        /\ IF to_sieve_name_fails(name)
           THEN /\ Return(Res("have_space", "Err", "IllegalScriptName", "", TRUE),
                          Consume(c), {Connection(ops', c.tls, c.auth, c.caps)},
                          transport, <<>>)
                /\ UNCHANGED <<outstanding, unflushed>>
           ELSE Begin("have_space", c, "HAVESPACE", "have_space_read")
        /\ input' = name
    /\ NoAuthLocals
    /\ UNCHANGED output

HaveSpaceRead ==
    /\ pc = "have_space_read"
    /\ \E in \in ReadInputs : \E closeOk \in CloseChoices(have_space_result(in, TRUE)) :
        Finish("have_space", in, closeOk, have_space_result(in, closeOk))
    /\ UNCHANGED <<input, output>>

\* logout, in every phase: write_all(..).unwrap(), then the response
Logout ==
    /\ pc = "idle"
    /\ ops < MaxOps
    /\ ops' = ops + 1
    /\ \E c \in live, writeOk \in BOOLEAN :
        IF writeOk
        THEN /\ pc' = "logout_read"
             /\ self' = c
             /\ live' = Consume(c)
             /\ trace' = <<EvWrite("LOGOUT")>>
             /\ outstanding' = outstanding + 1
             /\ unflushed' = TRUE
             /\ result' = Res("logout", "Running", "", "", FALSE)
             /\ UNCHANGED transport
        ELSE /\ Return(Res("logout", "Panic", "panic", "", FALSE), Consume(c), {},
                       transport, <<EvWriteFailed("LOGOUT")>>)
             /\ UNCHANGED <<outstanding, unflushed>>
    /\ NoAuthLocals
    /\ UNCHANGED <<input, output>>

LogoutRead ==
    /\ pc = "logout_read"
    /\ \E in \in ReadInputs : \E closeOk \in CloseChoices(logout_result(in, TRUE)) :
        Finish("logout", in, closeOk, logout_result(in, closeOk))
    /\ UNCHANGED <<input, output>>

Next ==
    \/ Connect
    \/ StartTls
    \/ StartTlsRead
    \/ StartTlsUpgrade
    \/ StartTlsCaps
    \/ Authenticate
    \/ AuthRead
    \/ AuthAbortRead
    \/ AuthCapsRead
    \/ ListScripts
    \/ ListScriptsRead
    \/ GetScript
    \/ GetScriptRead
    \/ PutScripts
    \/ PutScriptsRead
    \/ CheckScript
    \/ CheckScriptRead
    \/ HaveSpace
    \/ HaveSpaceRead
    \/ Logout
    \/ LogoutRead

Spec == Init /\ [][Next]_vars

(***************************************************************************)
(* The sieve-name types and verify_capabilities, applied on their own to   *)
(* every argument up to a bound.  No Connection exists in these runs.      *)
(***************************************************************************)
MaxNameLen == 2

MaxCaps == 4

\* the characters at both sides of each boundary of is_bad_sieve_name_char
NameChars == {0, 31, 32, 102, 126, 127, 159, 160, 8231, 8232, 8233, 8234}

NameInputs == UNION {[1..n -> NameChars] : n \in 0..MaxNameLen}

\* required, optional and unknown entries, two of them with the same key
CapEntries ==
    <<CapImplementation("dovecot"), CapImplementation("cyrus"), CapSieve(<<"fileinto">>),
      CapVersion("1.0"), CapStartTls, CapSasl(<<"PLAIN">>), CapUnknown("XFOO", "bar"),
      CapMaxRedirects(5), CapNotify(<<"mailto">>), CapLanguage("en"), CapOwner("kai")>>

\* the list that takes its entries from CapEntries at the positions picks
CapList(picks) == [i \in DOMAIN picks |-> CapEntries[picks[i]]]

CapPicks == UNION {[1..n -> DOMAIN CapEntries] : n \in 0..MaxCaps}

FnOk(v) == [ok |-> TRUE, v |-> v]

FnErr(e) == [ok |-> FALSE, err |-> e]

is_bad_sieve_name(name) == \E i \in 1..Len(name) : is_bad_sieve_name_char(name[i])

SieveNameStr_new(name) ==
    IF is_bad_sieve_name(name) THEN FnErr("SieveNameError") ELSE FnOk(name)

\* SieveNameString::new: SieveNameStr::new(&name)?, then the String is kept
SieveNameString_new(name) ==
    LET checked == SieveNameStr_new(name)
    IN  IF checked.ok THEN FnOk(name) ELSE checked

from_str(s) == SieveNameString_new(s)

\* String::deserialize may fail; then new, its error turned into a custom one
deserialize(isString, s) ==
    IF ~isString THEN FnErr("invalid type")
    ELSE LET r == SieveNameString_new(s)
         IN  IF r.ok THEN r ELSE FnErr("custom")

\* #[derive(Default)]: the empty String
SieveNameString_default == FnOk(<<>>)

as_sieve_name_str(name) == FnOk(name)

\* response_listscripts: sievestring_s2c.try_map(SieveNameString::new) on the
\* string s of a line; a rejected name fails the parse
listscripts_name(s) ==
    LET r == SieveNameString_new(s)
    IN  IF r.ok THEN r ELSE FnErr("Syntax")

(***************************************************************************)
(* parser/responses.rs.  The input of a parser is the sequence of the      *)
(* characters not yet consumed, each a one-character string, of a          *)
(* Partial<&str>: a parser that reaches the end of the input before it can *)
(* decide reports Incomplete.  A parser returns Ok with its value and the  *)
(* rest of the input, or Backtrack, Cut or Incomplete.                     *)
(***************************************************************************)
POk(v, rest) == [k |-> "Ok", v |-> v, rest |-> rest]

Backtrack == [k |-> "Backtrack"]

Cut == [k |-> "Cut"]

Incomplete == [k |-> "Incomplete"]

\* the element of a singleton: One({e : r \in {x}}) is e with r standing for
\* x, the result of a parser that the steps before it let run
One(S) == CHOOSE e \in S : TRUE

\* the input after its first n characters
Rest(i, n) == SubSeq(i, n + 1, Len(i))

UpperOf ==
    [a |-> "A", b |-> "B", c |-> "C", d |-> "D", e |-> "E", f |-> "F", g |-> "G",
     h |-> "H", i |-> "I", j |-> "J", k |-> "K", l |-> "L", m |-> "M", n |-> "N",
     o |-> "O", p |-> "P", q |-> "Q", r |-> "R", s |-> "S", t |-> "T", u |-> "U",
     v |-> "V", w |-> "W", x |-> "X", y |-> "Y", z |-> "Z"]

\* eq_ignore_ascii_case compares the ASCII upper-case forms
Upper(c) == IF c \in DOMAIN UpperOf THEN UpperOf[c] ELSE c

\* a literal: the characters present must agree with lit; when they do and
\* the input is shorter than lit, more input is needed
literal(lit, i) ==
    IF \E j \in 1..Len(lit) : j <= Len(i) /\ i[j] # lit[j] THEN Backtrack
    ELSE IF Len(i) < Len(lit) THEN Incomplete
    ELSE POk(lit, Rest(i, Len(lit)))

\* Caseless(lit): the same, comparing without regard to ASCII case
Caseless(lit, i) ==
    IF \E j \in 1..Len(lit) : j <= Len(i) /\ Upper(i[j]) # Upper(lit[j]) THEN Backtrack
    ELSE IF Len(i) < Len(lit) THEN Incomplete
    ELSE POk(SubSeq(i, 1, Len(lit)), Rest(i, Len(lit)))

\* take_while(1.., set): the end of the match must be seen in the input
take_while1(set, i) ==
    LET stops == {j \in 1..Len(i) : i[j] \notin set}
        stop == CHOOSE j \in stops : \A l \in stops : j <= l
    IN  IF stops = {} THEN Incomplete
        ELSE IF stop = 1 THEN Backtrack
        ELSE POk(SubSeq(i, 1, stop - 1), Rest(i, stop - 1))

Digits == {"0", "1", "2", "3", "4", "5", "6", "7", "8", "9"}

DigitValue ==
    [c \in Digits |->
        CASE c = "0" -> 0 [] c = "1" -> 1 [] c = "2" -> 2 [] c = "3" -> 3 [] c = "4" -> 4
          [] c = "5" -> 5 [] c = "6" -> 6 [] c = "7" -> 7 [] c = "8" -> 8 [] c = "9" -> 9]

digit1(i) == take_while1(Digits, i)

space1(i) == take_while1({" ", "\t"}, i)

crlf(i) == literal(<<"\r", "\n">>, i)

RECURSIVE Decimal(_)
Decimal(digits) ==
    IF digits = <<>> THEN 0
    ELSE 10 * Decimal(SubSeq(digits, 1, Len(digits) - 1)) + DigitValue[digits[Len(digits)]]

\* str::parse::<u64>: more than 20 digits never fit
parse_u64(digits) ==
    IF digits = <<>> \/ Len(digits) > 20 \/ \E j \in DOMAIN digits : digits[j] \notin Digits
    THEN [ok |-> FALSE]
    ELSE [ok |-> TRUE, v |-> Decimal(digits)]

\* digit1.parse_to()
number(i) ==
    One({IF d.k # "Ok" THEN d
         ELSE IF ~parse_u64(d.v).ok THEN Backtrack
         ELSE POk(parse_u64(d.v).v, d.rest)
         : d \in {digit1(i)}})

literal_s2c_len(i) ==
    One({IF open.k # "Ok" THEN open ELSE
    One({IF n.k # "Ok" THEN n ELSE
    One({IF close.k # "Ok" THEN close ELSE
    One({IF eol.k # "Ok" THEN eol ELSE POk(n.v, eol.rest)
         : eol \in {crlf(close.rest)}})
         : close \in {literal(<<"}">>, n.rest)}})
         : n \in {number(open.rest)}})
         : open \in {literal(<<"{">>, i)}})

\* length_take: take(n) counts the tokens of the &str, which are chars
literal_s2c(i) ==
    One({IF n.k # "Ok" THEN n
         ELSE IF Len(n.rest) < n.v THEN Incomplete
         ELSE POk(SubSeq(n.rest, 1, n.v), Rest(n.rest, n.v))
         : n \in {literal_s2c_len(i)}})

\* the characters take_while(1.., |c| c != '\\' && c != '"') stops at
QuotedStops == {"\\", "\""}

\* escaped(normal, '\\', alt(("\\", "\""))) from input i with acc collected
RECURSIVE escaped(_, _)
escaped(i, acc) ==
    IF i = <<>> THEN Incomplete
    ELSE IF i[1] \notin QuotedStops
    THEN LET stops == {j \in 1..Len(i) : i[j] \in QuotedStops}
             stop == CHOOSE j \in stops : \A l \in stops : j <= l
         IN  IF stops = {} THEN Incomplete
             ELSE escaped(Rest(i, stop - 1), acc \o SubSeq(i, 1, stop - 1))
    ELSE IF i[1] = "\\"
    THEN IF Len(i) < 2 THEN Incomplete
         ELSE IF i[2] \in QuotedStops THEN escaped(Rest(i, 2), Append(acc, i[2]))
         ELSE Backtrack
    ELSE POk(acc, i)

quoted_string(i) ==
    One({IF empty.k = "Ok" THEN POk(<<>>, empty.rest)
         ELSE IF empty.k # "Backtrack" THEN empty ELSE
    One({IF open.k # "Ok" THEN open ELSE
    One({IF body.k # "Ok" THEN body ELSE
    One({IF close.k # "Ok" THEN close ELSE POk(body.v, close.rest)
         : close \in {literal(<<"\"">>, body.rest)}})
         : body \in {escaped(open.rest, <<>>)}})
         : open \in {literal(<<"\"">>, i)}})
         : empty \in {literal(<<"\"", "\"">>, i)}})

sievestring_s2c(i) ==
    One({IF lit.k # "Backtrack" THEN lit ELSE quoted_string(i)
         : lit \in {literal_s2c(i)}})

\* ExtensionItem::String, ::Number and ::ExtensionData
ExtensionItem(t, v) == [t |-> t, v |-> v]

RECURSIVE extension_item(_)
RECURSIVE extension_more(_, _)

\* separated(1.., extension_item, space1)
extension_data(i) ==
    One({IF first.k # "Ok" THEN first ELSE extension_more(first.rest, <<first.v>>)
         : first \in {extension_item(i)}})

\* the loop of separated: a separator and an item, or the end of the list
extension_more(i, acc) ==
    One({IF sep.k = "Backtrack" THEN POk(acc, i)
         ELSE IF sep.k # "Ok" THEN sep ELSE
    One({IF item.k = "Backtrack" THEN POk(acc, i)
         ELSE IF item.k # "Ok" THEN item
         ELSE extension_more(item.rest, Append(acc, item.v))
         : item \in {extension_item(sep.rest)}})
         : sep \in {space1(i)}})

extension_item(i) ==
    One({IF str.k = "Ok" THEN POk(ExtensionItem("String", str.v), str.rest)
         ELSE IF str.k # "Backtrack" THEN str ELSE
    One({IF num.k = "Ok" THEN POk(ExtensionItem("Number", num.v), num.rest)
         ELSE IF num.k # "Backtrack" THEN num ELSE
    One({IF open.k # "Ok" THEN open ELSE
    One({IF data.k # "Ok" THEN data ELSE
    One({IF close.k # "Ok" THEN close
         ELSE POk(ExtensionItem("ExtensionData", data.v), close.rest)
         : close \in {literal(<<")">>, data.rest)}})
         : data \in {extension_data(open.rest)}})
         : open \in {literal(<<"(">>, i)}})
         : num \in {number(i)}})
         : str \in {sievestring_s2c(i)}})

\* a ResponseCode: c is the variant, v what it holds
ResponseCode(c, v) == [c |-> c, v |-> v]

\* the alternatives of code before the last one, in the order alt tries
\* them; string tells whether sievestring_s2c follows the literal
CodeAlternatives ==
    <<
      [lit |-> <<"A", "U", "T", "H", "-", "T", "O", "O", "-", "W", "E", "A", "K">>,
       c |-> "AuthTooWeak", string |-> FALSE, v |-> ""],
      [lit |-> <<"E", "N", "C", "R", "Y", "P", "T", "-", "N", "E", "E", "D", "E", "D">>,
       c |-> "EncryptNeeded", string |-> FALSE, v |-> ""],
      [lit |-> <<"Q", "U", "O", "T", "A", "/", "M", "A", "X", "S", "C", "R", "I", "P", "T", "S">>,
       c |-> "Quota", string |-> FALSE, v |-> "MaxScripts"],
      [lit |-> <<"Q", "U", "O", "T", "A", "/", "M", "A", "X", "S", "I", "Z", "E">>,
       c |-> "Quota", string |-> FALSE, v |-> "MaxSize"],
      [lit |-> <<"Q", "U", "O", "T", "A">>,
       c |-> "Quota", string |-> FALSE, v |-> "None"],
      [lit |-> <<"S", "A", "S", "L">>,
       c |-> "Sasl", string |-> TRUE, v |-> ""],
      [lit |-> <<"R", "E", "F", "E", "R", "R", "A", "L">>,
       c |-> "Referral", string |-> TRUE, v |-> ""],
      [lit |-> <<"T", "R", "A", "N", "S", "I", "T", "I", "O", "N", "-", "N", "E", "E", "D", "E", "D">>,
       c |-> "TransitionNeeded", string |-> FALSE, v |-> ""],
      [lit |-> <<"T", "R", "Y", "L", "A", "T", "E", "R">>,
       c |-> "TryLater", string |-> FALSE, v |-> ""],
      [lit |-> <<"A", "C", "T", "I", "V", "E">>,
       c |-> "Active", string |-> FALSE, v |-> ""],
      [lit |-> <<"N", "O", "N", "E", "X", "I", "S", "T", "E", "N", "T">>,
       c |-> "Nonexistent", string |-> FALSE, v |-> ""],
      [lit |-> <<"A", "L", "R", "E", "A", "D", "Y", "E", "X", "I", "S", "T", "S">>,
       c |-> "AlreadyExists", string |-> FALSE, v |-> ""],
      [lit |-> <<"W", "A", "R", "N", "I", "N", "G", "S">>,
       c |-> "Warnings", string |-> FALSE, v |-> ""],
      [lit |-> <<"T", "A", "G">>,
       c |-> "Tag", string |-> TRUE, v |-> ""]
    >>

\* alternative n of code applied to i
code_alternative(n, i) ==
    One({IF lit.k # "Ok" THEN lit
         ELSE IF ~a.string THEN POk(ResponseCode(a.c, a.v), lit.rest) ELSE
    One({IF str.k # "Ok" THEN str ELSE POk(ResponseCode(a.c, str.v), str.rest)
         : str \in {sievestring_s2c(lit.rest)}})
         : a \in {CodeAlternatives[n]}, lit \in {Caseless(CodeAlternatives[n].lit, i)}})

\* the last alternative: (sievestring_s2c, opt(preceded(space1, extension_data)))
code_extension(i) ==
    One({IF name.k # "Ok" THEN name ELSE
    One({IF sep.k = "Backtrack"
         THEN POk(ResponseCode("Extension", [name |-> name.v, data |-> None]), name.rest)
         ELSE IF sep.k # "Ok" THEN sep ELSE
    One({IF data.k = "Backtrack"
         THEN POk(ResponseCode("Extension", [name |-> name.v, data |-> None]), name.rest)
         ELSE IF data.k # "Ok" THEN data
         ELSE POk(ResponseCode("Extension", [name |-> name.v, data |-> Some(data.v)]),
                  data.rest)
         : data \in {extension_data(sep.rest)}})
         : sep \in {space1(name.rest)}})
         : name \in {sievestring_s2c(i)}})

\* alt from alternative n on: the first result that is not Backtrack
RECURSIVE code_alt(_, _)
code_alt(n, i) ==
    IF n > Len(CodeAlternatives) THEN code_extension(i)
    ELSE One({IF r.k = "Backtrack" THEN code_alt(n + 1, i) ELSE r
              : r \in {code_alternative(n, i)}})

code(i) ==
    One({IF open.k # "Ok" THEN open ELSE
    One({IF c.k # "Ok" THEN c ELSE
    One({IF close.k # "Ok" THEN close ELSE POk(c.v, close.rest)
         : close \in {literal(<<")">>, c.rest)}})
         : c \in {code_alt(1, open.rest)}})
         : open \in {literal(<<"(">>, i)}})

\* opt(preceded(space1, code))
opt_code(i) ==
    One({IF sep.k = "Backtrack" THEN POk(None, i)
         ELSE IF sep.k # "Ok" THEN sep ELSE
    One({IF c.k = "Backtrack" THEN POk(None, i)
         ELSE IF c.k # "Ok" THEN c
         ELSE POk(Some(c.v), c.rest)
         : c \in {code(sep.rest)}})
         : sep \in {space1(i)}})

\* opt(preceded(space1, sievestring_s2c))
opt_string(i) ==
    One({IF sep.k = "Backtrack" THEN POk(None, i)
         ELSE IF sep.k # "Ok" THEN sep ELSE
    One({IF str.k = "Backtrack" THEN POk(None, i)
         ELSE IF str.k # "Ok" THEN str
         ELSE POk(Some(str.v), str.rest)
         : str \in {sievestring_s2c(sep.rest)}})
         : sep \in {space1(i)}})

\* Response { tag, info: ResponseInfo { code, human } }
ParsedResponse(tag, c, human) == [tag |-> tag, code |-> c, human |-> human]

\* what follows the tag in a response line, up to and including crlf
response_info(tag, i) ==
    One({IF c.k # "Ok" THEN c ELSE
    One({IF human.k # "Ok" THEN human ELSE
    One({IF eol.k # "Ok" THEN eol
         ELSE POk(ParsedResponse(tag, c.v, human.v), eol.rest)
         : eol \in {crlf(human.rest)}})
         : human \in {opt_string(c.rest)}})
         : c \in {opt_code(i)}})

parse_response_ok(i) ==
    One({IF tag.k # "Ok" THEN tag ELSE response_info("OK", tag.rest)
         : tag \in {Caseless(<<"O", "K">>, i)}})

parse_response_nobye(i) ==
    One({IF no.k = "Ok" THEN response_info("NO", no.rest)
         ELSE IF no.k # "Backtrack" THEN no ELSE
    One({IF bye.k # "Ok" THEN bye ELSE response_info("BYE", bye.rest)
         : bye \in {Caseless(<<"B", "Y", "E">>, i)}})
         : no \in {Caseless(<<"N", "O">>, i)}})

parse_response_oknobye(i) ==
    One({IF ok.k # "Backtrack" THEN ok ELSE parse_response_nobye(i)
         : ok \in {parse_response_ok(i)}})

\* the printable ASCII characters, U+0020 to U+007E in order (GRAVE is
\* U+0060)
AsciiPrintable ==
    <<" ", "!", "\"", "#", "$", "%", "&", "'", "(", ")", "*", "+", ",", "-",
      ".", "/", "0", "1", "2", "3", "4", "5", "6", "7", "8", "9", ":", ";",
      "<", "=", ">", "?", "@", "A", "B", "C", "D", "E", "F", "G", "H", "I",
      "J", "K", "L", "M", "N", "O", "P", "Q", "R", "S", "T", "U", "V", "W",
      "X", "Y", "Z", "[", "\\", "]", "^", "_", "GRAVE", "a", "b", "c", "d", "e",
      "f", "g", "h", "i", "j", "k", "l", "m", "n", "o", "p", "q", "r", "s",
      "t", "u", "v", "w", "x", "y", "z", "{", "|", "}", "~">>

\* the other characters of the model: tab, line feed, carriage return,
\* BEL, U+00E9 and U+2028 (two and three bytes in UTF-8)
OtherChars ==
    [c \in {"\t", "\n", "\r", "BEL", "U+E9", "U+2028"} |->
        CASE c = "\t" -> 9 [] c = "\n" -> 10 [] c = "\r" -> 13
          [] c = "BEL" -> 7 [] c = "U+E9" -> 233 [] c = "U+2028" -> 8232]

\* the Unicode scalar value of a character
CodePoint(c) ==
    IF c \in DOMAIN OtherChars THEN OtherChars[c]
    ELSE 31 + (CHOOSE n \in DOMAIN AsciiPrintable : AsciiPrintable[n] = c)

\* the string as the sequence of its scalar values
CodePoints(s) == [j \in DOMAIN s |-> CodePoint(s[j])]

\* str::split(' ')
RECURSIVE split(_, _, _)
split(s, word, acc) ==
    IF s = <<>> THEN Append(acc, word)
    ELSE IF s[1] = " " THEN split(Rest(s, 1), <<>>, Append(acc, word))
    ELSE split(Rest(s, 1), Append(word, s[1]), acc)

space_separated_string_s2c(i) ==
    One({IF str.k # "Ok" THEN str
         ELSE POk(IF str.v = <<>> THEN <<>> ELSE split(str.v, <<>>, <<>>), str.rest)
         : str \in {sievestring_s2c(i)}})

space_separated_string_not_empty_s2c(i) ==
    One({IF str.k # "Ok" THEN str
         ELSE IF str.v = <<>> THEN Backtrack
         ELSE POk(split(str.v, <<>>, <<>>), str.rest)
         : str \in {sievestring_s2c(i)}})

\* s.parse::<u64>() of a whole string: a leading + is allowed
parse_u64_str(s) ==
    IF s # <<>> /\ s[1] = "+" THEN parse_u64(Rest(s, 1)) ELSE parse_u64(s)

number_string_s2c(i) ==
    One({IF str.k # "Ok" THEN str
         ELSE IF ~parse_u64_str(str.v).ok THEN Backtrack
         ELSE POk(parse_u64_str(str.v).v, str.rest)
         : str \in {sievestring_s2c(i)}})

Version(major, minor) == [major |-> major, minor |-> minor]

version(i) ==
    One({IF open.k # "Ok" THEN open ELSE
    One({IF major.k # "Ok" THEN major ELSE
    One({IF dot.k # "Ok" THEN dot ELSE
    One({IF minor.k # "Ok" THEN minor ELSE
    One({IF close.k # "Ok" THEN close
         ELSE POk(Version(major.v, minor.v), close.rest)
         : close \in {literal(<<"\"">>, minor.rest)}})
         : minor \in {number(dot.rest)}})
         : dot \in {literal(<<".">>, major.rest)}})
         : major \in {number(open.rest)}})
         : open \in {literal(<<"\"">>, i)}})

\* the alternatives of single_capability before the last one, in order
CapabilityAlternatives ==
    <<
      [lit |-> <<"\"", "I", "M", "P", "L", "E", "M", "E", "N", "T", "A", "T", "I", "O", "N", "\"">>,
       k |-> "Implementation", value |-> "string"],
      [lit |-> <<"\"", "S", "A", "S", "L", "\"">>,
       k |-> "Sasl", value |-> "list"],
      [lit |-> <<"\"", "S", "I", "E", "V", "E", "\"">>,
       k |-> "Sieve", value |-> "list"],
      [lit |-> <<"\"", "M", "A", "X", "R", "E", "D", "I", "R", "E", "C", "T", "S", "\"">>,
       k |-> "MaxRedirects", value |-> "number"],
      [lit |-> <<"\"", "N", "O", "T", "I", "F", "Y", "\"">>,
       k |-> "Notify", value |-> "nonempty"],
      [lit |-> <<"\"", "S", "T", "A", "R", "T", "T", "L", "S", "\"">>,
       k |-> "StartTls", value |-> "none"],
      [lit |-> <<"\"", "L", "A", "N", "G", "U", "A", "G", "E", "\"">>,
       k |-> "Language", value |-> "string"],
      [lit |-> <<"\"", "V", "E", "R", "S", "I", "O", "N", "\"">>,
       k |-> "Version", value |-> "version"],
      [lit |-> <<"\"", "O", "W", "N", "E", "R", "\"">>,
       k |-> "Owner", value |-> "string"]
    >>

capability_value(kind, i) ==
    CASE kind = "string" -> sievestring_s2c(i)
      [] kind = "list" -> space_separated_string_s2c(i)
      [] kind = "number" -> number_string_s2c(i)
      [] kind = "nonempty" -> space_separated_string_not_empty_s2c(i)
      [] kind = "version" -> version(i)

\* cut_err: after the key, a value that does not parse is final
cut_err(r) == IF r.k = "Backtrack" THEN Cut ELSE r

\* alternative n of single_capability applied to i
capability_alternative(n, i) ==
    One({IF key.k # "Ok" THEN key
         ELSE IF a.value = "none" THEN POk(Capability(a.k, "", "unit"), key.rest) ELSE
    One({IF sep.k # "Ok" THEN sep ELSE
    One({IF value.k # "Ok" THEN value
         ELSE POk(Capability(a.k, "", value.v), value.rest)
         : value \in {cut_err(capability_value(a.value, sep.rest))}})
         : sep \in {cut_err(space1(key.rest))}})
         : a \in {CapabilityAlternatives[n]},
           key \in {Caseless(CapabilityAlternatives[n].lit, i)}})

\* the last alternative: Capability::Unknown(cap, arg)
capability_unknown(i) ==
    One({IF cap.k # "Ok" THEN cap ELSE
    One({IF arg.k # "Ok" THEN arg
         ELSE POk(Capability("Unknown", cap.v, arg.v), arg.rest)
         : arg \in {opt_string(cap.rest)}})
         : cap \in {sievestring_s2c(i)}})

RECURSIVE capability_alt(_, _)
capability_alt(n, i) ==
    IF n > Len(CapabilityAlternatives) THEN capability_unknown(i)
    ELSE One({IF r.k = "Backtrack" THEN capability_alt(n + 1, i) ELSE r
              : r \in {capability_alternative(n, i)}})

single_capability(i) ==
    One({IF c.k # "Ok" THEN c ELSE
    One({IF eol.k # "Ok" THEN eol ELSE POk(c.v, eol.rest)
         : eol \in {crlf(c.rest)}})
         : c \in {capability_alt(1, i)}})

\* repeat(0.., single_capability)
RECURSIVE capabilities_repeat(_, _)
capabilities_repeat(i, acc) ==
    One({IF c.k = "Backtrack" THEN POk(acc, i)
         ELSE IF c.k # "Ok" THEN c
         ELSE capabilities_repeat(c.rest, Append(acc, c.v))
         : c \in {single_capability(i)}})

parse_response_capability(i) ==
    One({IF list.k # "Ok" THEN list ELSE
    One({IF response.k # "Ok" THEN response
         ELSE POk([capabilities |-> list.v, response |-> response.v], response.rest)
         : response \in {parse_response_oknobye(list.rest)}})
         : list \in {capabilities_repeat(i, <<>>)}})

Left(v) == [side |-> "Left", v |-> v]

Right(v) == [side |-> "Right", v |-> v]

parse_response_authenticate(i) ==
    One({IF line.k # "Backtrack" THEN line ELSE
    One({IF response.k # "Ok" THEN response
         ELSE POk(Right(response.v), response.rest)
         : response \in {parse_response_oknobye(i)}})
         : line \in {One({IF str.k # "Ok" THEN str ELSE
                     One({IF eol.k # "Ok" THEN eol ELSE POk(Left(str.v), eol.rest)
                          : eol \in {crlf(str.rest)}})
                          : str \in {sievestring_s2c(i)}})}})

parse_response_getscript(i) ==
    One({IF script.k # "Backtrack" THEN script ELSE
    One({IF response.k # "Ok" THEN response
         ELSE POk(Right(response.v), response.rest)
         : response \in {parse_response_nobye(i)}})
         : script \in {One({IF str.k # "Ok" THEN str ELSE
                       One({IF eol.k # "Ok" THEN eol ELSE
                       One({IF ok.k # "Ok" THEN ok
                            ELSE POk(Left([script |-> str.v, response |-> ok.v]), ok.rest)
                            : ok \in {parse_response_ok(eol.rest)}})
                            : eol \in {crlf(str.rest)}})
                            : str \in {sievestring_s2c(i)}})}})

\* opt((space1, Caseless("ACTIVE"))).map(|o| o.is_some())
opt_active(i) ==
    One({IF sep.k = "Backtrack" THEN POk(FALSE, i)
         ELSE IF sep.k # "Ok" THEN sep ELSE
    One({IF active.k = "Backtrack" THEN POk(FALSE, i)
         ELSE IF active.k # "Ok" THEN active
         ELSE POk(TRUE, active.rest)
         : active \in {Caseless(<<"A", "C", "T", "I", "V", "E">>, sep.rest)}})
         : sep \in {space1(i)}})

\* one line of a LISTSCRIPTS reply; try_map turns a rejected name into
\* Backtrack
script_line(i) ==
    One({IF str.k # "Ok" THEN str
         ELSE IF ~SieveNameString_new(CodePoints(str.v)).ok THEN Backtrack ELSE
    One({IF active.k # "Ok" THEN active ELSE
    One({IF eol.k # "Ok" THEN eol ELSE POk(<<str.v, active.v>>, eol.rest)
         : eol \in {crlf(active.rest)}})
         : active \in {opt_active(str.rest)}})
         : str \in {sievestring_s2c(i)}})

RECURSIVE scripts_repeat(_, _)
scripts_repeat(i, acc) ==
    One({IF line.k = "Backtrack" THEN POk(acc, i)
         ELSE IF line.k # "Ok" THEN line
         ELSE scripts_repeat(line.rest, Append(acc, line.v))
         : line \in {script_line(i)}})

parse_response_listscripts(i) ==
    One({IF list.k # "Ok" THEN list ELSE
    One({IF response.k # "Ok" THEN response
         ELSE POk([scripts |-> list.v, response |-> response.v], response.rest)
         : response \in {parse_response_oknobye(list.rest)}})
         : list \in {scripts_repeat(i, <<>>)}})

(***************************************************************************)
(* The read loop over bytes.  A character of the buffer is one token of    *)
(* the parsers above; on the wire it is one byte, except the tokens        *)
(* "U+E9" (two bytes) and "U+2028" (three bytes).  A byte is written as    *)
(* the character it encodes when that is a single byte, and as its hex     *)
(* value otherwise.                                                        *)
(***************************************************************************)
Utf8Of == [c \in {"U+E9", "U+2028"} |->
             IF c = "U+E9" THEN <<"C3", "A9">> ELSE <<"E2", "80", "A8">>]

\* the bytes that are not a whole character by themselves
LeadBytes == {"C3", "E2"}

ContinuationBytes == {"A9", "80", "A8"}

\* str::as_bytes of one character
Utf8(c) == IF c \in DOMAIN Utf8Of THEN Utf8Of[c] ELSE <<c>>

RECURSIVE as_bytes(_)
as_bytes(s) == IF s = <<>> THEN <<>> ELSE Utf8(Head(s)) \o as_bytes(Tail(s))

\* str::len: the length in bytes
RECURSIVE len(_)
len(s) == IF s = <<>> THEN 0 ELSE Len(Utf8(Head(s))) + len(Tail(s))

\* str::from_utf8 of one chunk: an error when a character is cut short or a
\* continuation byte stands alone
RECURSIVE from_utf8(_)
from_utf8(bytes) ==
    IF bytes = <<>> THEN [ok |-> TRUE, v |-> <<>>]
    ELSE LET b == Head(bytes)
             whole == {c \in DOMAIN Utf8Of :
                          /\ Len(Utf8Of[c]) <= Len(bytes)
                          /\ SubSeq(bytes, 1, Len(Utf8Of[c])) = Utf8Of[c]}
             c == CHOOSE c \in whole : TRUE
             n == IF b \in LeadBytes THEN Len(Utf8Of[c]) ELSE 1
             more == from_utf8(SubSeq(bytes, n + 1, Len(bytes)))
         IN  IF b \in ContinuationBytes THEN [ok |-> FALSE]
             ELSE IF b \in LeadBytes /\ whole = {} THEN [ok |-> FALSE]
             ELSE IF ~more.ok THEN more
             ELSE [ok |-> TRUE, v |-> <<IF b \in LeadBytes THEN c ELSE b>> \o more.v]

\* the parsers next_response is called with
Parsers ==
    {"response_ok", "response_nobye", "response_oknobye", "response_capability",
     "response_authenticate", "response_getscript", "response_listscripts"}

parse_next(parser, i) ==
    CASE parser = "response_ok" -> parse_response_ok(i)
      [] parser = "response_nobye" -> parse_response_nobye(i)
      [] parser = "response_oknobye" -> parse_response_oknobye(i)
      [] parser = "response_capability" -> parse_response_capability(i)
      [] parser = "response_authenticate" -> parse_response_authenticate(i)
      [] parser = "response_getscript" -> parse_response_getscript(i)
      [] parser = "response_listscripts" -> parse_response_listscripts(i)

\* terminated(parser, eof): eof fails on any input that is left
terminated_eof(parser, i) ==
    One({IF r.k # "Ok" THEN r
         ELSE IF Len(r.rest) > 0 THEN Backtrack
         ELSE r
         : r \in {parse_next(parser, i)}})

Success(v) == [k |-> "Success", v |-> v]

Syntax == [k |-> "SyntaxError"]

Eof == [k |-> "UnexpectedEof"]

Utf8Panic == [k |-> "Panic"]

Pending == [k |-> "Pending"]

\* one parse attempt of the read loop on the accumulated buffer
parse_attempt(parser, buf) ==
    One({IF r.k = "Incomplete" THEN Incomplete
         ELSE IF r.k = "Ok" THEN Success(r.v)
         ELSE Syntax
         : r \in {terminated_eof(parser, buf)}})

\* the loop of the closure given to poll_fn: chunks are what the successive
\* reads deliver; a read of no bytes is the end of the stream, and when no
\* chunk is left the read is pending
RECURSIVE poll_fn(_, _, _)
poll_fn(parser, chunks, buf) ==
    IF chunks = <<>> THEN Pending
    ELSE IF Head(chunks) = <<>> THEN Eof
    ELSE LET text == from_utf8(Head(chunks))
             r == parse_attempt(parser, buf \o text.v)
         IN  IF ~text.ok THEN Utf8Panic
             ELSE IF r.k = "Incomplete" THEN poll_fn(parser, Tail(chunks), buf \o text.v)
             ELSE r

(***************************************************************************)
(* Responses as a server writes them: the wire forms the parsers are       *)
(* applied to.  A string is written quoted, with backslash and quote       *)
(* escaped, or as a literal whose length counts bytes.                     *)
(***************************************************************************)
DigitChar == [d \in 0..9 |-> CHOOSE c \in Digits : DigitValue[c] = d]

RECURSIVE Numeral(_)
Numeral(n) ==
    IF n < 10 THEN <<DigitChar[n]>> ELSE Append(Numeral(n \div 10), DigitChar[n % 10])

CRLF == <<"\r", "\n">>

SP == <<" ">>

RECURSIVE Escape(_)
Escape(s) ==
    IF s = <<>> THEN <<>>
    ELSE (IF Head(s) \in QuotedStops THEN <<"\\", Head(s)>> ELSE <<Head(s)>>)
         \o Escape(Tail(s))

WireQuoted(s) == <<"\"">> \o Escape(s) \o <<"\"">>

\* {n} CRLF and then the n bytes of s
WireLiteralHeader(n) == <<"{">> \o Numeral(n) \o <<"}">> \o CRLF

WireLiteral(s) == WireLiteralHeader(len(s)) \o s

Str(form, s) == [form |-> form, s |-> s]

WireString(str) == IF str.form = "literal" THEN WireLiteral(str.s) ELSE WireQuoted(str.s)

\* the spellings of the three tags
TagSpellings ==
    << [tag |-> "OK", chars |-> <<"O", "K">>],
       [tag |-> "OK", chars |-> <<"o", "k">>],
       [tag |-> "OK", chars |-> <<"O", "k">>],
       [tag |-> "NO", chars |-> <<"N", "O">>],
       [tag |-> "NO", chars |-> <<"n", "O">>],
       [tag |-> "BYE", chars |-> <<"B", "Y", "E">>],
       [tag |-> "BYE", chars |-> <<"b", "y", "e">>] >>

StartTlsSync == <<"S", "T", "A", "R", "T", "T", "L", "S", "-", "S", "Y", "N", "C", "-", "4", "2">>

\* response codes: the atom, the value that follows it if any, whether the
\* atom is one of those RFC 5804 names, and the ResponseCode variant (with
\* the fixed part of its value) that stands for it
CodeChoices ==
    << [atom |-> <<"Q", "U", "O", "T", "A">>, value |-> None, known |-> TRUE,
        c |-> "Quota", v |-> "None"],
       [atom |-> <<"Q", "U", "O", "T", "A", "/", "M", "A", "X", "S", "I", "Z", "E">>,
        value |-> None, known |-> TRUE, c |-> "Quota", v |-> "MaxSize"],
       [atom |-> <<"T", "R", "Y", "L", "A", "T", "E", "R">>, value |-> None, known |-> TRUE,
        c |-> "TryLater", v |-> ""],
       [atom |-> <<"S", "A", "S", "L">>, value |-> Some(Str("quoted", <<"x">>)),
        known |-> TRUE, c |-> "Sasl", v |-> ""],
       [atom |-> <<"R", "E", "F", "E", "R", "R", "A", "L">>,
        value |-> Some(Str("quoted", <<"u">>)), known |-> TRUE, c |-> "Referral", v |-> ""],
       [atom |-> <<"T", "A", "G">>, value |-> Some(Str("quoted", StartTlsSync)),
        known |-> TRUE, c |-> "Tag", v |-> ""],
       [atom |-> <<"T", "A", "G">>, value |-> Some(Str("literal", StartTlsSync)),
        known |-> TRUE, c |-> "Tag", v |-> ""],
       [atom |-> <<"X", "F", "O", "O">>, value |-> None, known |-> FALSE,
        c |-> "Extension", v |-> ""],
       [atom |-> <<"X", "F", "O", "O">>, value |-> Some(Str("quoted", <<"v">>)),
        known |-> FALSE, c |-> "Extension", v |-> ""] >>

HumanChoices ==
    << Str("quoted", <<"h", "e", "l", "l", "o">>),
       Str("quoted", <<"a", "\"", "b">>),
       Str("literal", <<"h", "i">>) >>

\* "(" atom [SP sieve-string] ")"
WireCode(c) ==
    <<"(">> \o c.atom
            \o (IF c.value = None THEN <<>> ELSE SP \o WireString(c.value[1]))
            \o <<")">>

\* TAG [SP code] [SP human-text] CRLF
WireLine(spelling, c, human) ==
    spelling.chars
        \o (IF c = None THEN <<>> ELSE SP \o WireCode(c[1]))
        \o (IF human = None THEN <<>> ELSE SP \o WireString(human[1]))
        \o CRLF

\* 0 stands for an absent code or human text
PickOf(choices, n) == IF n = 0 THEN None ELSE Some(choices[n])

LineParsers(tag) ==
    IF tag = "OK" THEN {"response_ok", "response_oknobye"}
    ELSE {"response_nobye", "response_oknobye"}

LineInput(t, c, h) ==
    [kind |-> "line",
     parsers |-> LineParsers(TagSpellings[t].tag),
     desc |-> [tag |-> TagSpellings[t].tag,
               code |-> PickOf(CodeChoices, c),
               human |-> PickOf(HumanChoices, h)],
     text |-> WireLine(TagSpellings[t], PickOf(CodeChoices, c), PickOf(HumanChoices, h))]

\* the final response lines of the multi-line replies
FinalChoices == << <<1, 0, 0>>, <<4, 3, 1>>, <<6, 5, 0>> >>

FinalLine(f) == LineInput(FinalChoices[f][1], FinalChoices[f][2], FinalChoices[f][3])

\* the lines of a LISTSCRIPTS reply: name [SP ACTIVE] CRLF
ScriptChoices ==
    << [name |-> Str("quoted", <<"a">>), active |-> Some(<<"A", "C", "T", "I", "V", "E">>)],
       [name |-> Str("quoted", <<"b">>), active |-> None],
       [name |-> Str("literal", <<"a", "b">>), active |-> Some(<<"a", "c", "t", "i", "v", "e">>)],
       [name |-> Str("quoted", <<"U+E9">>), active |-> None],
       [name |-> Str("literal", <<"U+E9">>), active |-> Some(<<"A", "c", "t", "i", "v", "e">>)] >>

WireScriptLine(l) ==
    WireString(l.name) \o (IF l.active = None THEN <<>> ELSE SP \o l.active[1]) \o CRLF

RECURSIVE WireLines(_, _)
WireLines(choices, picks) ==
    IF picks = <<>> THEN <<>>
    ELSE WireScriptLine(choices[Head(picks)]) \o WireLines(choices, Tail(picks))

MaxScripts == 2

ScriptPicks == UNION {[1..n -> DOMAIN ScriptChoices] : n \in 0..MaxScripts}

ListingInput(picks, f) ==
    [kind |-> "listing",
     parsers |-> {"response_listscripts"},
     desc |-> [scripts |-> [j \in DOMAIN picks |-> ScriptChoices[picks[j]]],
               final |-> FinalLine(f).desc],
     text |-> WireLines(ScriptChoices, picks) \o FinalLine(f).text]

\* a GETSCRIPT reply: the script, CRLF and an OK line, or a NO or BYE line
ScriptBodies ==
    << Str("literal", <<"a", "\r", "\n", "b">>), Str("quoted", <<"U+E9">>),
       Str("literal", <<"U+E9", "a">>) >>

ScriptInput(b) ==
    [kind |-> "script",
     parsers |-> {"response_getscript"},
     desc |-> [script |-> ScriptBodies[b]],
     text |-> WireString(ScriptBodies[b]) \o CRLF \o FinalLine(1).text]

\* a SASL challenge: one string and CRLF
Challenges == << Str("quoted", <<"Y", "Q", "=", "=">>), Str("literal", <<"Y", "Q", "=", "=">>) >>

ChallengeInput(c) ==
    [kind |-> "challenge",
     parsers |-> {"response_authenticate"},
     desc |-> [challenge |-> Challenges[c]],
     text |-> WireString(Challenges[c]) \o CRLF]

\* the lines of a capability announcement
AnnouncementLines ==
    << <<"\"", "I", "M", "P", "L", "E", "M", "E", "N", "T", "A", "T", "I", "O", "N", "\"",
         " ", "\"", "x", "\"">>,
       <<"\"", "S", "I", "E", "V", "E", "\"", " ", "\"", "a", " ", "b", "\"">>,
       <<"\"", "S", "T", "A", "R", "T", "T", "L", "S", "\"">>,
       <<"\"", "V", "E", "R", "S", "I", "O", "N", "\"", " ", "\"", "1", ".", "0", "\"">>,
       <<"\"", "X", "F", "O", "O", "\"", " ", "{", "1", "}", "\r", "\n", "v">> >>

RECURSIVE WireAnnouncement(_)
WireAnnouncement(picks) ==
    IF picks = <<>> THEN <<>>
    ELSE AnnouncementLines[Head(picks)] \o CRLF \o WireAnnouncement(Tail(picks))

MaxAnnounced == 2

AnnouncementPicks == UNION {[1..n -> DOMAIN AnnouncementLines] : n \in 0..MaxAnnounced}

AnnouncementInput(picks) ==
    [kind |-> "announcement",
     parsers |-> {"response_capability"},
     desc |-> [lines |-> picks],
     text |-> WireAnnouncement(picks) \o FinalLine(1).text]

\* the payloads a literal is tried with
MaxPayload == 3

PayloadChars == {"a", "\r", "U+E9"}

LiteralPayloads == UNION {[1..n -> PayloadChars] : n \in 0..MaxPayload}

LiteralInput(n, payload) == [kind |-> "literal", n |-> n, arg |-> payload]

(***************************************************************************)
(* internal/parser.rs: the response code of the parsers that connect,      *)
(* list_scripts, get_script, have_space, logout and start_tls still use.   *)
(***************************************************************************)
\* the order in which atom tries the names of CodeAlternatives
InternalAtoms == <<1, 2, 3, 4, 5, 7, 6, 8, 9, 10, 11, 12, 14, 13>>

RECURSIVE internal_atom_alt(_, _)
internal_atom_alt(n, i) ==
    IF n > Len(InternalAtoms) THEN Backtrack
    ELSE One({IF r.k = "Backtrack" THEN internal_atom_alt(n + 1, i)
              ELSE IF r.k # "Ok" THEN r
              ELSE POk(ResponseCode(a.c, a.v), r.rest)
              : a \in {CodeAlternatives[InternalAtoms[n]]},
                r \in {Caseless(CodeAlternatives[InternalAtoms[n]].lit, i)}})

internal_atom(i) == internal_atom_alt(1, i)

\* delimited("\"", escaped_transform(take_while(0.., ..), '\\', ..), "\"")
internal_quoted_string(i) ==
    One({IF open.k # "Ok" THEN open ELSE
    One({IF body.k # "Ok" THEN body ELSE
    One({IF close.k # "Ok" THEN close ELSE POk(body.v, close.rest)
         : close \in {literal(<<"\"">>, body.rest)}})
         : body \in {escaped(open.rest, <<>>)}})
         : open \in {literal(<<"\"">>, i)}})

internal_sievestring_s2c(i) ==
    One({IF lit.k = "Backtrack" THEN internal_quoted_string(i) ELSE lit
         : lit \in {literal_s2c(i)}})

\* delimited("(", (atom, opt(preceded(space1, sievestring_s2c))), ")")
internal_code(i) ==
    One({IF open.k # "Ok" THEN open ELSE
    One({IF a.k # "Ok" THEN a ELSE
    One({IF value.k # "Ok" THEN value ELSE
    One({IF close.k # "Ok" THEN close
         ELSE POk([atom |-> a.v, value |-> value.v], close.rest)
         : close \in {literal(<<")">>, value.rest)}})
         : value \in {One({IF sep.k = "Backtrack" THEN POk(None, a.rest)
                           ELSE IF sep.k # "Ok" THEN sep ELSE
                      One({IF str.k = "Backtrack" THEN POk(None, a.rest)
                           ELSE IF str.k # "Ok" THEN str
                           ELSE POk(Some(str.v), str.rest)
                           : str \in {internal_sievestring_s2c(sep.rest)}})
                           : sep \in {space1(a.rest)}})}})
         : a \in {internal_atom(open.rest)}})
         : open \in {literal(<<"(">>, i)}})

(***************************************************************************)
(* Writing commands.  internal/command.rs formats a command to a String    *)
(* that send_command writes; commands/definitions.rs writes the parts of   *)
(* a command to the stream one after the other.  Both are given here as    *)
(* the bytes that reach the stream.                                        *)
(***************************************************************************)
\* the decimal digits of a number, as usize's Display and itoa produce them
RECURSIVE itoa(_)
itoa(n) ==
    LET last == CHOOSE c \in Digits : DigitValue[c] = n % 10
    IN  IF n \div 10 = 0 THEN <<last>> ELSE Append(itoa(n \div 10), last)

Base64Alphabet ==
    <<"A", "B", "C", "D", "E", "F", "G", "H", "I", "J", "K", "L", "M", "N", "O", "P",
      "Q", "R", "S", "T", "U", "V", "W", "X", "Y", "Z", "a", "b", "c", "d", "e", "f",
      "g", "h", "i", "j", "k", "l", "m", "n", "o", "p", "q", "r", "s", "t", "u", "v",
      "w", "x", "y", "z", "0", "1", "2", "3", "4", "5", "6", "7", "8", "9", "+", "/">>

Sextet(n) == Base64Alphabet[n + 1]

\* base64::engine::general_purpose::STANDARD.encode of a sequence of bytes
\* 0..255: three bytes give four characters, the last group is padded
RECURSIVE STANDARD_encode(_)
STANDARD_encode(bytes) ==
    IF bytes = <<>> THEN <<>>
    ELSE IF Len(bytes) = 1
    THEN <<Sextet(bytes[1] \div 4), Sextet((bytes[1] % 4) * 16), "=", "=">>
    ELSE IF Len(bytes) = 2
    THEN <<Sextet(bytes[1] \div 4), Sextet((bytes[1] % 4) * 16 + bytes[2] \div 16),
           Sextet((bytes[2] % 16) * 4), "=">>
    ELSE <<Sextet(bytes[1] \div 4), Sextet((bytes[1] % 4) * 16 + bytes[2] \div 16),
           Sextet((bytes[2] % 16) * 4 + bytes[3] \div 64), Sextet(bytes[3] % 64)>>
         \o STANDARD_encode(SubSeq(bytes, 4, Len(bytes)))

\* Display of SieveStr: "{{{}+}}\r\n{}" with self.0.len() and self.0
SieveStr_fmt(s) == <<"{">> \o itoa(len(s)) \o <<"+", "}", "\r", "\n">> \o as_bytes(s)

\* Display of SieveStrBase64
SieveStrBase64_fmt(bytes) == SieveStr_fmt(STANDARD_encode(bytes))

Authenticate_word == <<"A", "U", "T", "H", "E", "N", "T", "I", "C", "A", "T", "E">>

\* Display of Command::Authenticate { auth_type, message }
Command_authenticate_fmt(auth_type, message) ==
    Authenticate_word \o <<" ">> \o SieveStr_fmt(auth_type)
        \o (IF message = None THEN <<>> ELSE <<" ">> \o SieveStrBase64_fmt(message[1]))
        \o <<"\r", "\n">>

\* SieveWriter::string
SieveWriter_string(s) == <<"{">> \o itoa(len(s)) \o <<"}">> \o <<"\r", "\n">> \o as_bytes(s)

\* definitions::authenticate(auth_type, data)
definitions_authenticate(auth_type, data) ==
    Authenticate_word \o <<" ">> \o SieveWriter_string(auth_type)
        \o (IF data = None THEN <<>> ELSE <<" ">> \o SieveWriter_string(data[1]))
        \o <<"\r", "\n">>

\* Connection::authenticate: the initial response is encoded, then written
send_authenticate(name, initial) ==
    definitions_authenticate(name,
        IF initial = None THEN None ELSE Some(STANDARD_encode(initial[1])))

\* the string arguments and SASL messages the writers are tried with
Mechanisms == {<<"P", "L", "A", "I", "N">>, <<"X">>}

MaxMessage == 2

MessageBytes == {0, 102, 255}

\* the initial response of test_authenticate: NUL f o o NUL b a r
PlainMessage == <<0, 102, 111, 111, 0, 98, 97, 114>>

SaslMessages == UNION {[1..n -> MessageBytes] : n \in 0..MaxMessage} \cup {PlainMessage}

ArgInput(s) == [kind |-> "arg", arg |-> s]

AuthInput(m, initial) == [kind |-> "auth", mech |-> m, initial |-> initial]

\* the operations that read their response with parser/responses.rs
ReplyOps == {"put_scripts", "check_script"}

\* put_scripts and check_script after send_command, on the bytes of one
\* read: next_response(response_oknobye), handle_bye and the match on the
\* tag; the result tells whether the Connection comes back with it
script_reply(op, text) ==
    One({IF r.k = "Incomplete" THEN Res(op, "Pending", "", "", FALSE)
         ELSE IF r.k # "Success" THEN Res(op, "Err", "Syntax", "", FALSE)
         ELSE IF r.v.tag = "BYE" THEN Res(op, "Err", "Bye", "", FALSE)
         ELSE IF r.v.tag = "OK" THEN Res(op, "Ok", "", "Ok", TRUE)
         ELSE IF op = "put_scripts" /\ r.v.code # None /\ r.v.code[1].c = "Quota"
         THEN Res(op, "Ok", "", "InsufficientQuota", TRUE)
         ELSE Res(op, "Ok", "", "InvalidScript", TRUE)
         : r \in {parse_attempt("response_oknobye", text)}})

NameInput(name) == [kind |-> "name", arg |-> name]

CapsInput(capabilities) == [kind |-> "caps", arg |-> capabilities]

Applied(by, r) == [by |-> by, r |-> r]

Attempted(op, by, arg, r) == [op |-> op, by |-> by, arg |-> arg, r |-> r]

TextKinds == {"line", "listing", "script", "challenge", "announcement"}

\* what may follow a response in the same read
TrailingBytes == {<<"x">>, <<"\r", "\n">>, <<"O", "K", "\r", "\n">>}

\* the ways the n bytes of a response are cut into non-empty chunks, as the
\* increasing sequence of the positions after which a cut is made: no cut,
\* one cut at any position, and a cut after every byte but the last
CutsOf(n) ==
    {<<>>} \cup {<<j>> : j \in 1..(n - 1)} \cup {[j \in 1..(n - 1) |-> j]}

ChunksOf(bytes, cuts) ==
    [j \in 1..(Len(cuts) + 1) |->
        SubSeq(bytes,
               IF j = 1 THEN 1 ELSE cuts[j - 1] + 1,
               IF j = Len(cuts) + 1 THEN Len(bytes) ELSE cuts[j])]

FnInit ==
    /\ pc = "fn"
    /\ self = NoConn
    /\ live = {}
    /\ transport = "none"
    /\ result = Res("none", "", "", "", FALSE)
    /\ trace = <<>>
    /\ ops = 0
    /\ outstanding = 0
    /\ unflushed = FALSE
    /\ session = NoSession
    /\ client_finished = FALSE
    /\ rounds = 0
    /\ \/ \E name \in NameInputs : input = NameInput(name)
       \/ \E picks \in CapPicks : input = CapsInput(CapList(picks))
       \/ \E n \in 0..MaxPayload, payload \in LiteralPayloads : input = LiteralInput(n, payload)
       \/ \E t \in DOMAIN TagSpellings, c \in 0..Len(CodeChoices),
             h \in 0..Len(HumanChoices) : input = LineInput(t, c, h)
       \/ \E picks \in ScriptPicks, f \in DOMAIN FinalChoices :
             input = ListingInput(picks, f)
       \/ \E b \in DOMAIN ScriptBodies : input = ScriptInput(b)
       \/ \E c \in DOMAIN Challenges : input = ChallengeInput(c)
       \/ \E picks \in AnnouncementPicks : input = AnnouncementInput(picks)
       \/ \E s \in LiteralPayloads : input = ArgInput(s)
       \/ \E m \in Mechanisms, initial \in {None} \cup {Some(r) : r \in SaslMessages} :
             input = AuthInput(m, initial)
    /\ output = None

FnFrame ==
    UNCHANGED <<pc, self, live, transport, result, trace, ops, outstanding, unflushed,
                session, client_finished, rounds, input>>

NewNameStr ==
    /\ pc = "fn"
    /\ input.kind = "name"
    /\ output' = Applied("SieveNameStr::new", SieveNameStr_new(input.arg))
    /\ FnFrame

NewNameString ==
    /\ pc = "fn"
    /\ input.kind = "name"
    /\ output' = Applied("SieveNameString::new", SieveNameString_new(input.arg))
    /\ FnFrame

NameFromStr ==
    /\ pc = "fn"
    /\ input.kind = "name"
    /\ output' = Applied("from_str", from_str(input.arg))
    /\ FnFrame

DeserializeName ==
    /\ pc = "fn"
    /\ input.kind = "name"
    /\ \E isString \in BOOLEAN :
        output' = Applied("deserialize", deserialize(isString, input.arg))
    /\ FnFrame

DefaultName ==
    /\ pc = "fn"
    /\ input.kind = "name"
    /\ output' = Applied("default", SieveNameString_default)
    /\ FnFrame

\* Deref of a SieveNameString that was obtained before
BorrowName ==
    /\ pc = "fn"
    /\ input.kind = "name"
    /\ output # None
    /\ output.r.ok
    /\ output.by # "SieveNameStr::new"
    /\ output' = Applied("as_sieve_name_str", as_sieve_name_str(output.r.v))
    /\ FnFrame

ListedName ==
    /\ pc = "fn"
    /\ input.kind = "name"
    /\ output' = Applied("response_listscripts", listscripts_name(input.arg))
    /\ FnFrame

VerifyCapabilities ==
    /\ pc = "fn"
    /\ input.kind = "caps"
    /\ output' = Applied("verify_capabilities", verify_capabilities(input.arg))
    /\ FnFrame

\* literal_s2c on the header {n} CRLF followed by the payload buffered so far
ParseLiteral ==
    /\ pc = "fn"
    /\ output = None
    /\ input.kind = "literal"
    /\ output' = Applied("literal_s2c",
                         literal_s2c(WireLiteralHeader(input.n) \o input.arg))
    /\ FnFrame

\* one parse attempt on a buffer that holds exactly the response
ParseResponse ==
    /\ pc = "fn"
    /\ output = None
    /\ input.kind \in TextKinds
    /\ \E parser \in input.parsers :
        output' = Attempted("whole", parser, input.text,
                            parse_attempt(parser, input.text))
    /\ FnFrame

\* one parse attempt on a buffer that holds only the first n characters
AttemptPrefix ==
    /\ pc = "fn"
    /\ output = None
    /\ input.kind \in TextKinds
    /\ \E parser \in input.parsers, n \in 0..(Len(input.text) - 1) :
        output' = Attempted("prefix", parser, SubSeq(input.text, 1, n),
                            parse_attempt(parser, SubSeq(input.text, 1, n)))
    /\ FnFrame

\* one parse attempt on a buffer in which more bytes follow the response
AttemptTrailing ==
    /\ pc = "fn"
    /\ output = None
    /\ input.kind \in TextKinds
    /\ \E parser \in input.parsers, more \in TrailingBytes :
        output' = Attempted("trailing", parser, input.text \o more,
                            parse_attempt(parser, input.text \o more))
    /\ FnFrame

\* next_response_inner when the bytes of the response arrive in chunks
ReadChunks ==
    /\ pc = "fn"
    /\ output = None
    /\ input.kind \in TextKinds
    /\ \E parser \in input.parsers, cuts \in CutsOf(Len(as_bytes(input.text))) :
        output' = Attempted("chunks", parser, ChunksOf(as_bytes(input.text), cuts),
                            poll_fn(parser, ChunksOf(as_bytes(input.text), cuts), <<>>))
    /\ FnFrame

\* internal::parser::code on the response code of a line
ParseInternalCode ==
    /\ pc = "fn"
    /\ output = None
    /\ input.kind = "line"
    /\ input.desc.code # None
    /\ output' = Attempted("code", "internal::parser::code", WireCode(input.desc.code[1]),
                           internal_code(WireCode(input.desc.code[1])))
    /\ FnFrame

\* a string argument written through SieveWriter (put_script, check_script,
\* authenticate and the other commands of commands/definitions.rs)
WriteString ==
    /\ pc = "fn"
    /\ output = None
    /\ input.kind = "arg"
    /\ output' = Applied("SieveWriter::string", SieveWriter_string(input.arg))
    /\ FnFrame

\* a string argument formatted by internal/command.rs
FormatSieveStr ==
    /\ pc = "fn"
    /\ output = None
    /\ input.kind = "arg"
    /\ output' = Applied("SieveStr::fmt", SieveStr_fmt(input.arg))
    /\ FnFrame

\* the AUTHENTICATE command Connection::authenticate sends
WriteAuthenticate ==
    /\ pc = "fn"
    /\ output = None
    /\ input.kind = "auth"
    /\ output' = Applied("definitions::authenticate",
                         send_authenticate(input.mech, input.initial))
    /\ FnFrame

\* Command::authenticate(..).to_string()
FormatAuthenticate ==
    /\ pc = "fn"
    /\ output = None
    /\ input.kind = "auth"
    /\ output' = Applied("Command::authenticate",
                         Command_authenticate_fmt(input.mech, input.initial))
    /\ FnFrame

\* the response line is the answer to PUTSCRIPT or CHECKSCRIPT
ScriptReply ==
    /\ pc = "fn"
    /\ output = None
    /\ input.kind = "line"
    /\ \E op \in ReplyOps :
        output' = Attempted("reply", op, input.text, script_reply(op, input.text))
    /\ FnFrame

FnNext ==
    \/ NewNameStr
    \/ NewNameString
    \/ NameFromStr
    \/ DeserializeName
    \/ DefaultName
    \/ BorrowName
    \/ ListedName
    \/ VerifyCapabilities
    \/ ParseLiteral
    \/ ParseResponse
    \/ AttemptPrefix
    \/ AttemptTrailing
    \/ ReadChunks
    \/ ParseInternalCode
    \/ WriteString
    \/ FormatSieveStr
    \/ WriteAuthenticate
    \/ FormatAuthenticate
    \/ ScriptReply

FnSpec == FnInit /\ [][FnNext]_vars

(***************************************************************************)
(* Properties.                                                             *)
(***************************************************************************)
IsRead(e) == e[1] = "read"

IsResume(e) == e[1] = "resume"

\* the Connection values that exist: held by the caller or inside the call
Held == live \cup ({self} \ {NoConn})

ScriptOps == {"list_scripts", "get_script", "put_scripts", "have_space", "check_script"}

\* the mechanism was finished when the OK at position i of t was read
FinishedAt(t, i, sess) ==
    \/ sess.init = "Complete"
    \/ \E j \in 1..(i - 1) : IsResume(t[j]) /\ is_finished(t[j][2])
    \/ (i < Len(t) /\ t[i + 1] = EvResume("Complete"))

\* t ends with: OK to the AUTHENTICATE exchange with the mechanism finished,
\* CAPABILITY written, its answer OK with a valid announcement
AuthOrderOk(t, sess) ==
    LET n == Len(t)
    IN  /\ n >= 4
        /\ IsRead(t[n])
        /\ t[n][2].shape \in {"caps", "resp"}
        /\ t[n][2].tag = "OK"
        /\ verify_capabilities(t[n][2].list).ok
        /\ t[n - 1] = EvWrite("CAPABILITY")
        /\ \E i \in 1..(n - 2) :
            /\ IsRead(t[i])
            /\ t[i][2].shape = "resp"
            /\ t[i][2].tag = "OK"
            /\ FinishedAt(t, i, sess)
            /\ (i = n - 2 \/ (i = n - 3 /\ IsResume(t[n - 2])))

\* C1: authenticate hands out an Authenticated connection only after, in this
\* order, an OK to the AUTHENTICATE exchange received with the mechanism
\* finished, and a CAPABILITY exchange answered OK with a valid announcement.
C1_AuthenticatedOnlyInOrder ==
    (pc = "idle" /\ result.op = "authenticate" /\ \E c \in live : c.auth = "Auth")
        => (result.kind = "Ok" /\ AuthOrderOk(trace, session))

C1_Witness ==
    /\ pc = "idle"
    /\ result.op = "authenticate"
    /\ result.kind = "Ok"
    /\ \E c \in live : c.auth = "Auth"
    /\ \E i \in 1..Len(trace) : IsResume(trace[i])

\* the phases an operation is implemented for
Accepts(op, c) ==
    CASE op = "start_tls" -> c.tls = "Plain" /\ c.auth = "Unauth"
      [] op = "authenticate" -> c.auth = "Unauth"
      [] op \in ScriptOps -> c.auth = "Auth"
      [] op = "logout" -> TRUE
      [] OTHER -> FALSE

\* the phases of the Connection d that op returns for the Connection c
LegalEdge(op, c, d) ==
    CASE op = "start_tls" -> d.tls = "Tls" /\ d.auth = "Unauth"
      [] op = "authenticate" ->
            /\ d.tls = c.tls
            /\ d.auth = IF result'.kind = "Ok" THEN "Auth" ELSE "Unauth"
      [] op \in ScriptOps -> d.tls = c.tls /\ d.auth = c.auth
      [] OTHER -> FALSE

PhaseStep ==
    /\ (ops' = ops + 1) =>
            IF result'.op = "connect"
            THEN Held = {} /\ \A d \in live' : d.tls = "Plain" /\ d.auth = "Unauth"
            ELSE \E c \in live : c \notin live' /\ Accepts(result'.op, c)
    /\ \A d \in live' \ live : \A c \in Held : LegalEdge(result'.op, c, d)
    /\ \A c \in Held : \A d \in Held' :
            /\ c.auth = "Auth" => d.auth = "Auth"
            /\ c.tls = "Tls" => d.tls = "Tls"

\* C2: the phase of the connection changes only along the legal edges, and an
\* operation is accepted only in the phases it is implemented for.
C2_LegalPhaseEdges == [][PhaseStep]_vars

C2_Witness ==
    /\ pc = "idle"
    /\ result.op \in ScriptOps
    /\ \E c \in live : c.tls = "Tls" /\ c.auth = "Auth"

\* C3: at most one Connection exists for the transport, and after a call that
\* returned one it is the Connection of that call, not an earlier one.
C3_SingleOwner ==
    /\ Cardinality(Held) <= 1
    /\ \A c \in Held : c.id <= ops
    /\ (pc = "idle" /\ result.conn) => \A c \in live : c.id = ops

C3_Witness ==
    /\ pc = "idle"
    /\ result.op \in ScriptOps
    /\ result.conn
    /\ Cardinality(live) = 1
    /\ ops >= 3

IsWrite(e) == e[1] = "write"

IsFailedWrite(e) == e[1] = "write failed"

\* the positions of the reads in t
Reads(t) == {i \in 1..Len(t) : IsRead(t[i])}

\* the call read at least one message and m is the last one it read
LastRead(t, m) ==
    \E i \in Reads(t) : t[i][2] = m /\ \A j \in Reads(t) : j <= i

CloseAttempted(t) == \E i \in 1..Len(t) : t[i] = EvClose

\* a well-formed response line tagged BYE
IsByeLine(m) == m.shape = "resp" /\ m.tag = "BYE"

\* C4: whichever operation read it, a response tagged BYE makes the client
\* close the transport and the call fail with the unexpected-BYE error, and
\* no Connection is returned.  (When close() itself fails, its I/O error is
\* what the call reports.)
C4_ByeClosesAndFails ==
    (pc = "idle" /\ \E m \in ReadInputs : IsByeLine(m) /\ LastRead(trace, m))
        => /\ live = {}
           /\ ~result.conn
           /\ CloseAttempted(trace)
           /\ transport \in {"closed", "closeFailed"}
           /\ (transport = "closed" => (result.kind = "Err" /\ result.err = "Bye"))

\* the call met a failed write, a failed read, an early end of the stream or
\* bytes that do not match the grammar
StreamFailure(t) ==
    \/ \E i \in 1..Len(t) : IsFailedWrite(t[i])
    \/ \E m \in ReadInputs : m.shape \in {"ioerr", "eof", "garbage"} /\ LastRead(t, m)

IoFailure(t) ==
    \/ \E i \in 1..Len(t) : IsFailedWrite(t[i])
    \/ \E m \in ReadInputs : m.shape = "ioerr" /\ LastRead(t, m)

\* C5: a write or read that fails at the stream level makes the client try
\* to close the transport and the call fail with an I/O error; bytes that do
\* not match the grammar, or a stream that ends early, close the transport
\* before the error is returned; no Connection is returned in these cases.
C5_FailureClosesAndFails ==
    (pc = "idle" /\ StreamFailure(trace))
        => /\ live = {}
           /\ ~result.conn
           /\ result.kind = "Err"
           /\ CloseAttempted(trace)
           /\ transport \in {"closed", "closeFailed"}
           /\ (IoFailure(trace) => result.err = "Io")

\* C6: a call that returns without handing a Connection back has closed the
\* transport before it returns.
C6_SessionEndClosesTransport ==
    (pc = "idle" /\ ops > 0 /\ live = {})
        => (CloseAttempted(trace) /\ transport \in {"closed", "closeFailed"})

ReadPositions ==
    {"start_tls_read", "auth_read", "auth_abort_read", "auth_caps_read",
     "list_scripts_read", "get_script_read", "put_scripts_read",
     "check_script_read", "have_space_read", "logout_read"}

\* C7: when the client starts to read the response to a command, the command
\* was written in full and the transport was flushed.
C7_FlushedBeforeRead ==
    pc \in ReadPositions
        => (Len(trace) > 0 /\ IsWrite(trace[Len(trace)]) /\ ~unflushed)

\* C8: no pipelining: at most one client line is unanswered at any time, and
\* between two writes of a call a server message was read and parsed.
C8_NoPipelining ==
    /\ outstanding <= 1
    /\ \A i \in 1..(Len(trace) - 1) : IsWrite(trace[i]) => IsRead(trace[i + 1])
    /\ pc \in ReadPositions => outstanding = 1

C8_Witness ==
    /\ pc = "auth_caps_read"
    /\ outstanding = 1
    /\ Cardinality({i \in 1..Len(trace) : IsWrite(trace[i])}) >= 3

\* the announcement m is answered OK and passes verify_capabilities
GoodAnnouncement(m) ==
    /\ m.shape \in {"caps", "resp"}
    /\ m.tag = "OK"
    /\ verify_capabilities(m.list).ok

\* the last event of t before its position i that is not a read
RefreshStartsAt(t, i) ==
    /\ i \in 1..(Len(t) - 1)
    /\ t[i] \in {EvTls(TRUE), EvWrite("CAPABILITY")}
    /\ IsRead(t[i + 1])

\* the call returned the Connection of the new phase with the snapshot of m
ReturnsSnapshot(m) ==
    /\ result.kind = "Ok"
    /\ result.conn
    /\ \E c \in live :
        /\ live = {c}
        /\ c.caps = verify_capabilities(m.list).caps
        /\ c.tls = (IF result.op = "start_tls" THEN "Tls" ELSE c.tls)
        /\ c.auth = (IF result.op = "authenticate" THEN "Auth" ELSE "Unauth")

\* C9, as stated: a successful start_tls and a successful authenticate each
\* wrote CAPABILITY right before the announcement whose snapshot the returned
\* Connection carries.
C9_RefreshIssuesCapability ==
    (pc = "idle" /\ result.op \in {"start_tls", "authenticate"} /\ result.kind = "Ok")
        => /\ Len(trace) >= 2
           /\ trace[Len(trace) - 1] = EvWrite("CAPABILITY")
           /\ IsRead(trace[Len(trace)])
           /\ ReturnsSnapshot(trace[Len(trace)][2])

\* C9, amended: after the TLS upgrade start_tls reads the announcement the
\* server sends without writing CAPABILITY; after the SASL exchange
\* authenticate writes CAPABILITY and reads the answer.  In both, the
\* announcement is parsed and validated, the returned Connection carries its
\* snapshot, and a refresh answered NO or BYE, malformed or invalid fails
\* the call without a Connection.
C9_RefreshAfterUpgradeAndAuth ==
    (pc = "idle" /\ result.op \in {"start_tls", "authenticate"})
        => /\ \A i \in 1..Len(trace) :
                RefreshStartsAt(trace, i) =>
                    /\ trace[i] = (IF result.op = "start_tls" THEN EvTls(TRUE)
                                   ELSE EvWrite("CAPABILITY"))
                    /\ IF GoodAnnouncement(trace[i + 1][2])
                       THEN i + 1 = Len(trace) /\ ReturnsSnapshot(trace[i + 1][2])
                       ELSE live = {} /\ ~result.conn /\ result.kind # "Ok"
           /\ result.kind = "Ok" => RefreshStartsAt(trace, Len(trace) - 1)
           /\ result.op = "start_tls" =>
                \A i \in 1..Len(trace) : trace[i] # EvWrite("CAPABILITY")

C9_Witness ==
    /\ pc = "idle"
    /\ result.op = "authenticate"
    /\ result.kind = "Ok"
    /\ \E c \in live : c.tls = "Tls" /\ c.caps = verify_capabilities(AnnAfterAuth).caps

\* C10: start_tls on a snapshot without STARTTLS fails with Unsupported,
\* nothing is written and no TLS upgrade is attempted; STARTTLS is written
\* only for a snapshot with start_tls = true.
C10_Step ==
    (pc = "idle" /\ ops' = ops + 1 /\ result'.op = "start_tls")
        => \E c \in live :
            /\ c \notin live'
            /\ IF c.caps.start_tls
               THEN trace'[1] \in {EvWrite("STARTTLS"), EvWriteFailed("STARTTLS")}
               ELSE /\ pc' = "idle"
                    /\ result'.kind = "Err"
                    /\ result'.err = "Unsupported"
                    /\ trace' = <<>>
                    /\ UNCHANGED <<outstanding, unflushed>>

C10_StartTlsRequiresCapability == [][C10_Step]_vars

C10_Witness ==
    /\ pc = "idle"
    /\ result.op = "start_tls"
    /\ result.err = "Unsupported"
    /\ trace = <<>>
    /\ live = {}

\* a bare challenge string, and a well-formed response line with tag t
IsChallenge(m) == m.shape = "string"

IsLine(m, t) == m.shape = "resp" /\ m.tag = t

\* the lines of the SASL exchange the client writes
AuthWrites == {EvWrite("AUTHENTICATE name"), EvWrite("AUTHENTICATE name initial"),
               EvWrite("sasl_string")}

\* position i of t is a resume that reported an error on a challenge string
ResumeFailedOnChallenge(t, i) ==
    /\ i \in 2..Len(t)
    /\ t[i] = EvResume("Error")
    /\ IsRead(t[i - 1])
    /\ IsChallenge(t[i - 1][2])

\* C11: after a resume that fails on a challenge string the next thing
\* written is one "*" line; one NO/BYE response is then read and only then
\* the mechanism error is returned: with the Unauthenticated Connection after
\* NO, fatally and without a Connection after BYE.
C11_AbortAfterFailedResume ==
    result.op = "authenticate" =>
        \A i \in 1..Len(trace) :
            ResumeFailedOnChallenge(trace, i) =>
                /\ i < Len(trace)
                /\ trace[i + 1] \in {EvWrite("*"), EvWriteFailed("*")}
                /\ Cardinality({j \in 1..Len(trace) : trace[j] = EvWrite("*")}) <= 1
                /\ trace[i + 1] = EvWrite("*") =>
                    IF Len(trace) = i + 1
                    THEN pc = "auth_abort_read"
                    ELSE /\ pc = "idle"
                         /\ IsRead(trace[i + 2])
                         /\ \A j \in (i + 3)..Len(trace) : trace[j] = EvClose
                         /\ IsLine(trace[i + 2][2], "NO") =>
                                /\ Len(trace) = i + 2
                                /\ result.kind = "AuthError"
                                /\ result.err = "SaslError"
                                /\ result.conn
                                /\ \E c \in live : live = {c} /\ c.auth = "Unauth"
                         /\ IsLine(trace[i + 2][2], "BYE") =>
                                /\ live = {}
                                /\ ~result.conn
                                /\ result.kind = "Err"
                                /\ result.err \in {"Bye", "Io"}
                         /\ result.err = "SaslError" => IsLine(trace[i + 2][2], "NO")

C11_Witness ==
    /\ pc = "idle"
    /\ result.op = "authenticate"
    /\ result.err = "SaslError"
    /\ \E c \in live : c.auth = "Unauth"
    /\ \E i \in 1..Len(trace) :
        /\ ResumeFailedOnChallenge(trace, i)
        /\ trace[i + 1] = EvWrite("*")
        /\ IsLine(trace[i + 2][2], "NO")

\* C12: a session that starts Complete writes AUTHENTICATE with the initial
\* response and nothing else for the SASL exchange; the first OK without
\* data completes it, the mechanism is never resumed, and the only further
\* write is the CAPABILITY refresh.
C12_OneRoundSession ==
    (result.op = "authenticate" /\ session.init = "Complete") =>
        /\ Len(trace) >= 1
        /\ trace[1] \in {EvWrite("AUTHENTICATE name initial"),
                         EvWriteFailed("AUTHENTICATE name initial")}
        /\ \A i \in 1..Len(trace) : ~IsResume(trace[i])
        /\ \A i \in 2..Len(trace) :
                (IsWrite(trace[i]) \/ IsFailedWrite(trace[i]))
                    => (i = 3 /\ trace[i][2] = "CAPABILITY")
        /\ (Len(trace) >= 2 /\ IsRead(trace[2]) /\ IsLine(trace[2][2], "OK")
                /\ trace[2][2].code # "SASL")
                => (Len(trace) >= 3 /\ trace[3][2] = "CAPABILITY")

C12_Witness ==
    /\ pc = "idle"
    /\ result.op = "authenticate"
    /\ result.kind = "Ok"
    /\ session.init = "Complete"
    /\ Len(trace) = 4
    /\ \E c \in live : c.auth = "Auth"

\* the client considered the exchange finished before position i of t
FinishedBefore(t, i, sess) ==
    \/ sess.init = "Complete"
    \/ \E j \in 1..(i - 1) : IsResume(t[j]) /\ is_finished(t[j][2])

\* position i of t is a read of the SASL loop
LoopRead(t, i) ==
    /\ i \in 2..Len(t)
    /\ IsRead(t[i])
    /\ t[i - 1] \in AuthWrites

\* SASL data: a challenge string, or the data embedded in an OK
IsOkWithData(m) == IsLine(m, "OK") /\ m.code = "SASL"

IsSaslData(m) == IsChallenge(m) \/ IsOkWithData(m)

C14_OkWithData ==
    result.op = "authenticate" =>
        \A i \in 1..Len(trace) :
            (LoopRead(trace, i) /\ IsOkWithData(trace[i][2])
                /\ ~FinishedBefore(trace, i, session))
                => /\ i < Len(trace)
                   /\ IsResume(trace[i + 1])
                   /\ \A j \in (i + 2)..Len(trace) : ~IsResume(trace[j])
                   /\ trace[i + 1] = EvResume("Complete") =>
                        /\ i + 1 < Len(trace)
                        /\ trace[i + 2] \in {EvWrite("CAPABILITY"),
                                             EvWriteFailed("CAPABILITY")}
                   /\ has_response(trace[i + 1][2]) =>
                        /\ i + 1 = Len(trace)
                        /\ pc = "idle"
                        /\ result.kind = "AuthError"
                        /\ result.err = "UnexpectedOk"

IsOkWithoutData(m) == IsLine(m, "OK") /\ m.code # "SASL"

\* C15: an OK without embedded SASL data completes authenticate only if the
\* client already considers itself finished; otherwise the call fails with
\* UnexpectedOk and no Connection is handed back.
C15_OkWithoutData ==
    result.op = "authenticate" =>
        \A i \in 1..Len(trace) :
            (LoopRead(trace, i) /\ IsOkWithoutData(trace[i][2])) =>
                IF FinishedBefore(trace, i, session)
                THEN /\ i < Len(trace)
                     /\ trace[i + 1] \in {EvWrite("CAPABILITY"),
                                          EvWriteFailed("CAPABILITY")}
                ELSE /\ i = Len(trace)
                     /\ pc = "idle"
                     /\ result.kind = "AuthError"
                     /\ result.err = "UnexpectedOk"
                     /\ ~result.conn
                     /\ live = {}

C15_Witness ==
    /\ pc = "idle"
    /\ result.op = "authenticate"
    /\ result.err = "UnexpectedOk"
    /\ live = {}
    /\ IsOkWithoutData(trace[Len(trace)][2])
    /\ \E j \in 1..Len(trace) : trace[j] = EvResume("Yielded")

\* the typed error a NO with this code is mapped to, "" for none
MappedNo(wire) ==
    CASE wire = "AUTH-TOO-WEAK" -> "AuthTooWeak"
      [] wire = "ENCRYPT-NEEDED" -> "EncryptNeeded"
      [] wire = "TRANSITION-NEEDED" -> "TransitionNeeded"
      [] OTHER -> ""

QuotaOf(wire) ==
    CASE wire = "QUOTA" -> "None"
      [] wire = "QUOTA/MAXSCRIPTS" -> "MaxScripts"
      [] wire = "QUOTA/MAXSIZE" -> "MaxSize"

\* the call returned the Authenticated Connection it was called on
ReturnsAuthenticated ==
    /\ result.conn
    /\ \E c \in live : live = {c} /\ c.auth = "Auth" /\ c.id = ops

\* C17: have_space answers OK with the has-space result and a NO carrying
\* QUOTA, QUOTA/MAXSCRIPTS or QUOTA/MAXSIZE with the insufficient-quota
\* result of the matching variant and the human text of the response; in
\* both cases the Authenticated Connection is returned.
C17_HaveSpaceResults ==
    (pc = "idle" /\ result.op = "have_space" /\ Len(trace) = 2 /\ IsRead(trace[2])) =>
        LET m == trace[2][2]
        IN  /\ IsLine(m, "OK") =>
                /\ result.kind = "Ok"
                /\ result.val = "Yes"
                /\ ReturnsAuthenticated
            /\ (IsLine(m, "NO") /\ m.code \in {"QUOTA", "QUOTA/MAXSCRIPTS", "QUOTA/MAXSIZE"}) =>
                /\ result.kind = "Ok"
                /\ result.val = <<"No", QuotaOf(m.code), m.human>>
                /\ ReturnsAuthenticated

C17_Witness ==
    /\ pc = "idle"
    /\ result.op = "have_space"
    /\ Len(trace) = 2
    /\ IsRead(trace[2])
    /\ trace[2][2] = WithHuman(Msg("resp", "NO", "QUOTA/MAXSIZE", "", <<>>), "too big")
    /\ result.val = <<"No", "MaxSize", Some("too big")>>
    /\ ReturnsAuthenticated

\* the characters a sieve name must not contain (section 1.6 of RFC 5804)
Forbidden == (0..31) \cup (127..159) \cup {8232, 8233}

ContainsForbidden(name) == \E i \in 1..Len(name) : name[i] \in Forbidden

\* the step is a call of have_space
HaveSpaceCalled == pc = "idle" /\ ops' = ops + 1 /\ result'.op = "have_space"

\* the call gave back the Connection it was given, nothing else changed
SameConnection ==
    \E c \in live : live' = (live \ {c}) \cup {[c EXCEPT !.id = ops']}

C18_Step ==
    (HaveSpaceCalled /\ ContainsForbidden(input')) =>
        /\ pc' = "idle"
        /\ result'.kind = "Err"
        /\ result'.err = "IllegalScriptName"
        /\ result'.conn
        /\ trace' = <<>>
        /\ SameConnection
        /\ UNCHANGED <<transport, outstanding, unflushed>>

\* C18: have_space with a name that contains a forbidden character fails
\* with the illegal-name error without writing to or reading from the
\* transport, and the Connection (phase, capabilities, transport) comes back
\* as it was.
C18_IllegalNameNoTraffic == [][C18_Step]_vars

C18_Witness ==
    /\ pc = "idle"
    /\ result.op = "have_space"
    /\ result.err = "IllegalScriptName"
    /\ input = <<102, 8232>>
    /\ trace = <<>>
    /\ transport = "open"
    /\ \E c \in live : c.id = ops /\ c.auth = "Auth"

\* the functions that take the string of input and check it
NameCheckers == {"SieveNameStr::new", "SieveNameString::new", "from_str"}

\* a sieve-name function was applied
NameApplied == output # None /\ input.kind = "name"

\* C19: a string is accepted as a sieve name exactly when it has no
\* character in U+0000..U+001F, U+007F..U+009F, U+2028, U+2029, and every
\* value of the sieve-name types (from new, from_str, deserialization, the
\* default value, a LISTSCRIPTS reply, a borrow) has no such character.
C19_SieveNameValues ==
    NameApplied =>
        /\ output.by \in NameCheckers =>
            /\ output.r.ok <=> ~ContainsForbidden(input.arg)
            /\ output.r.ok => output.r.v = input.arg
        /\ output.by \in {"deserialize", "response_listscripts"} =>
            (output.r.ok => output.r.v = input.arg /\ ~ContainsForbidden(input.arg))
        /\ output.r.ok => ~ContainsForbidden(output.r.v)

C19_Witness ==
    /\ NameApplied
    /\ output.by = "response_listscripts"
    /\ output.r.ok
    /\ output.r.v = <<32, 160>>

\* verify_capabilities was applied to the list of input
CapsApplied == output # None /\ input.kind = "caps"

HasKey(capabilities, k) == \E i \in DOMAIN capabilities : capabilities[i].k = k

\* two entries of the list have the same key
RepeatsKey(capabilities) ==
    \E i, j \in DOMAIN capabilities :
        /\ i < j
        /\ capabilities[i].k = capabilities[j].k
        /\ capabilities[i].name = capabilities[j].name

Yields(e) == ~output.r.ok /\ output.r.err = e

\* what the final match says about the keys of the list
MissingInOrder(capabilities) ==
    /\ ~HasKey(capabilities, "Implementation") => Yields("MissingImplementation")
    /\ (HasKey(capabilities, "Implementation") /\ ~HasKey(capabilities, "Sieve")) =>
            Yields("MissingSieve")
    /\ (/\ HasKey(capabilities, "Implementation")
        /\ HasKey(capabilities, "Sieve")
        /\ ~HasKey(capabilities, "Version")) => Yields("MissingVersion")

\* C20 as stated: every list without IMPLEMENTATION yields
\* MissingImplementation, every list with IMPLEMENTATION and without SIEVE
\* yields MissingSieve, every list with both and without VERSION yields
\* MissingVersion, whatever else the list contains.
C20_MissingKeyAnyList == CapsApplied => MissingInOrder(input.arg)

\* C20: a list in which no key is repeated yields MissingImplementation,
\* else MissingSieve, else MissingVersion for the first required key it
\* lacks, in every order and with any optional or unknown keys; a list with
\* a repeated key yields DuplicateCapability whatever it lacks.
C20_MissingKeyPriority ==
    CapsApplied =>
        IF RepeatsKey(input.arg)
        THEN Yields("DuplicateCapability")
        ELSE MissingInOrder(input.arg)

C20_Witness ==
    /\ CapsApplied
    /\ [i \in DOMAIN input.arg |-> input.arg[i].k] =
            <<"Sieve", "Unknown", "StartTls", "Implementation">>
    /\ Yields("MissingVersion")

\* the key of each entry as single_capability reads it from the wire
WireKey(c) ==
    CASE c.k = "Implementation" -> "IMPLEMENTATION"
      [] c.k = "Sasl" -> "SASL"
      [] c.k = "Sieve" -> "SIEVE"
      [] c.k = "StartTls" -> "STARTTLS"
      [] c.k = "MaxRedirects" -> "MAXREDIRECTS"
      [] c.k = "Notify" -> "NOTIFY"
      [] c.k = "Language" -> "LANGUAGE"
      [] c.k = "Owner" -> "OWNER"
      [] c.k = "Version" -> "VERSION"
      [] c.k = "Unknown" -> c.name

SameKey(c, d) == c.k = d.k /\ c.name = d.name

\* the first position of the list whose key occurred before it
FirstRepeat(capabilities) ==
    CHOOSE j \in DOMAIN capabilities :
        /\ \E i \in 1..(j - 1) : SameKey(capabilities[i], capabilities[j])
        /\ \A l \in 1..(j - 1) :
            ~\E i \in 1..(l - 1) : SameKey(capabilities[i], capabilities[l])

\* C21: a capability list in which a key occurs twice yields
\* DuplicateCapability naming that key as it was announced, and no
\* Capabilities record.
C21_DuplicateNamesKey ==
    (CapsApplied /\ RepeatsKey(input.arg)) =>
        /\ Yields("DuplicateCapability")
        /\ output.r.capability = WireKey(input.arg[FirstRepeat(input.arg)])

\* the value announced for key k in a list that has k once
Announced(capabilities, k) ==
    capabilities[CHOOSE i \in DOMAIN capabilities : capabilities[i].k = k].v

AnnouncedOrNone(capabilities, k) ==
    IF HasKey(capabilities, k) THEN Some(Announced(capabilities, k)) ELSE None

UnknownKeys(capabilities) ==
    {capabilities[i].name : i \in {j \in DOMAIN capabilities : capabilities[j].k = "Unknown"}}

AnnouncedUnknown(capabilities, name) ==
    capabilities[CHOOSE i \in DOMAIN capabilities :
                    capabilities[i].k = "Unknown" /\ capabilities[i].name = name].v

HasRequired(capabilities) ==
    /\ HasKey(capabilities, "Implementation")
    /\ HasKey(capabilities, "Sieve")
    /\ HasKey(capabilities, "Version")

\* C22: a list with IMPLEMENTATION, SIEVE and VERSION and no repeated key
\* is accepted, and the record holds the announced values whatever the
\* order: sasl is the announced list or empty, start_tls is true iff
\* STARTTLS was announced, the optional fields are absent iff not
\* announced, every unknown key is in the map with its value.
C22_RecordHoldsAnnounced ==
    (CapsApplied /\ HasRequired(input.arg) /\ ~RepeatsKey(input.arg)) =>
        /\ output.r.ok
        /\ LET l == input.arg
               caps == output.r.caps
           IN  /\ caps.implementation = Announced(l, "Implementation")
               /\ caps.sieve = Announced(l, "Sieve")
               /\ caps.version = Announced(l, "Version")
               /\ caps.sasl = IF HasKey(l, "Sasl") THEN Announced(l, "Sasl") ELSE <<>>
               /\ caps.start_tls = HasKey(l, "StartTls")
               /\ caps.max_redirects = AnnouncedOrNone(l, "MaxRedirects")
               /\ caps.notify = AnnouncedOrNone(l, "Notify")
               /\ caps.language = AnnouncedOrNone(l, "Language")
               /\ caps.owner = AnnouncedOrNone(l, "Owner")
               /\ DOMAIN caps.others = UnknownKeys(l)
               /\ \A name \in UnknownKeys(l) : caps.others[name] = AnnouncedUnknown(l, name)

C22_Witness ==
    /\ CapsApplied
    /\ output.r.ok
    /\ Len(input.arg) = 4
    /\ input.arg[1].k = "Unknown"
    /\ input.arg[4].k = "Implementation"
    /\ output.r.caps.others["XFOO"] = "bar"
    /\ output.r.caps.sasl = <<>>
    /\ ~output.r.caps.start_tls

LiteralApplied == output # None /\ input.kind = "literal"

\* C23: for every n and every string s of n bytes, the literal {n} CRLF s
\* parses to s (n = 0 gives the empty string); while fewer than n payload
\* bytes are buffered the parse reports Incomplete, and it never succeeds
\* with a string whose length is not n bytes.
C23_LiteralCountsBytes ==
    LiteralApplied =>
        /\ (len(input.arg) = input.n) => (output.r.k = "Ok" /\ output.r.v = input.arg)
        /\ (len(input.arg) < input.n) => (output.r.k = "Incomplete")
        /\ (output.r.k = "Ok") => (len(output.r.v) = input.n)

TextApplied(how) == output # None /\ input.kind \in TextKinds /\ output.op \in how

\* C24: a parse attempt of the read loop yields exactly one of Incomplete,
\* Success and SyntaxError; a well-formed response followed by further
\* bytes is not a Success, and every strict prefix of a well-formed
\* response yields Incomplete.
C24_AttemptOutcome ==
    TextApplied({"whole", "prefix", "trailing"}) =>
        /\ output.r.k \in {"Incomplete", "Success", "SyntaxError"}
        /\ (output.op = "trailing") => (output.r.k # "Success")
        /\ (output.op = "prefix") => (output.r.k = "Incomplete")

\* what the read loop returns when the whole response arrives in one chunk
InOneChunk == poll_fn(output.by, <<as_bytes(input.text)>>, <<>>)

\* C25: for every well-formed response and every way of splitting its bytes
\* into non-empty chunks, the read loop returns the same Success value as
\* when the bytes arrive in one chunk.
C25_ChunkingIndependent ==
    TextApplied({"chunks"}) =>
        /\ output.r.k = "Success"
        /\ InOneChunk.k = "Success"
        /\ output.r.v = InOneChunk.v

LineParsed == TextApplied({"whole"}) /\ input.kind = "line"

\* the parsed code is the one the line was written with
SameCode(parsed, choice) ==
    /\ parsed.c = choice.c
    /\ IF choice.c = "Extension"
       THEN /\ parsed.v.name = choice.atom
            /\ (choice.value = None) = (parsed.v.data = None)
       ELSE IF choice.value # None THEN parsed.v = choice.value[1].s
       ELSE parsed.v = choice.v

\* the parsed response is the one the line was written as
SameResponse(parsed, line) ==
    /\ parsed.tag = line.tag
    /\ Len(parsed.code) = Len(line.code)
    /\ (line.code # None) => SameCode(parsed.code[1], line.code[1])
    /\ parsed.human = IF line.human = None THEN None ELSE Some(line.human[1].s)

\* C26: a response line TAG [SP code] [SP human-text] CRLF, with the tag in
\* any letter case, parses to a Response with that tag, that code or none,
\* and that human text or none.
C26_ResponseLine ==
    LineParsed => (output.r.k = "Success" /\ SameResponse(output.r.v, input.desc))

\* C27: a response line whose code is an atom the client does not
\* recognise, with or without a value, parses successfully with the code
\* kept as Extension{name, data}.
C27_UnknownCodeKept ==
    (LineParsed /\ input.desc.code # None /\ ~input.desc.code[1].known) =>
        /\ output.r.k = "Success"
        /\ output.r.v.code # None
        /\ SameCode(output.r.v.code[1], input.desc.code[1])

\* C28: a response code written ( atom SP sieve-string ), the value quoted
\* or a literal, parses to the code holding that value.
C28_CodeValue ==
    (LineParsed /\ input.desc.code # None
        /\ input.desc.code[1].known /\ input.desc.code[1].value # None) =>
        /\ output.r.k = "Success"
        /\ output.r.v.code # None
        /\ output.r.v.code[1].c = input.desc.code[1].c
        /\ output.r.v.code[1].v = input.desc.code[1].value[1].s

ListingParsed == TextApplied({"whole"}) /\ input.kind = "listing"

\* the (name, active) pairs of the lines a LISTSCRIPTS reply was written with
Listed(scripts) == [j \in DOMAIN scripts |-> <<scripts[j].name.s, scripts[j].active # None>>]

\* C29: a LISTSCRIPTS reply of zero or more lines name [SP ACTIVE] CRLF and
\* a response line parses to the (name, active) pairs in the order sent,
\* active exactly for the lines that carry ACTIVE in any letter case,
\* together with the final response.
C29_ListScriptsReply ==
    ListingParsed =>
        /\ output.r.k = "Success"
        /\ output.r.v.scripts = Listed(input.desc.scripts)
        /\ SameResponse(output.r.v.response, input.desc.final)

\* the client-to-server literal of s: {n+} CRLF and the n bytes of s
ClientLiteral(s) == <<"{">> \o Numeral(len(s)) \o <<"+", "}">> \o CRLF \o as_bytes(s)

Written == output # None /\ input.kind \in {"arg", "auth"}

\* C30: every string argument the client writes is encoded as {n+} CRLF
\* followed by exactly n bytes, n the byte length of the string; AUTHENTICATE
\* for mechanism m with initial response r is written as AUTHENTICATE SP
\* literal(m) SP literal(base64(r)) CRLF, without the second literal when
\* there is no initial response.
C30_ClientLiteral ==
    Written =>
        output.r =
            IF input.kind = "arg" THEN ClientLiteral(input.arg)
            ELSE Authenticate_word \o SP \o ClientLiteral(input.mech)
                   \o (IF input.initial = None THEN <<>>
                       ELSE SP \o ClientLiteral(STANDARD_encode(input.initial[1])))
                   \o CRLF

\* the events of t that are writes, failed or not
WritesOf(t) == {i \in 1..Len(t) : IsWrite(t[i]) \/ IsFailedWrite(t[i])}

\* what holds of a logout call while it runs and after it returned
LogoutCall ==
    result.op = "logout" =>
        /\ live = {}
        /\ ~result.conn
        /\ WritesOf(trace) = {1}
        /\ trace[1][2] = "LOGOUT"
        /\ Cardinality(Reads(trace)) <= 1
        /\ pc = "logout_read" <=> trace = <<EvWrite("LOGOUT")>>
        /\ (pc = "idle" /\ IsWrite(trace[1])) => (Len(trace) >= 2 /\ IsRead(trace[2]))
        /\ (pc = "idle" /\ \E m \in ReadInputs : IsLine(m, "OK") /\ LastRead(trace, m)) =>
                /\ CloseAttempted(trace)
                /\ transport \in {"closed", "closeFailed"}
                /\ IF transport = "closed" THEN result.kind = "Ok"
                   ELSE result.kind = "Err" /\ result.err = "Io"
        /\ result.kind = "Ok" => \E m \in ReadInputs : IsLine(m, "OK") /\ LastRead(trace, m)

\* a Connection in any phase can be given to logout, and nothing can be
\* called once logout returned
LogoutStep ==
    /\ (pc = "idle" /\ ops < MaxOps) =>
            \A c \in live : ENABLED (Logout /\ self' \in {c, NoConn} /\ c \notin live')
    /\ (pc = "idle" /\ result.op = "logout") => UNCHANGED vars

\* C31: logout is accepted in every phase, consumes the connection, writes
\* LOGOUT and reads one response; on OK the transport is closed and the call
\* returns success (the I/O error of close() when close() fails); whatever
\* the outcome no Connection is returned, and no operation follows a logout
\* on that transport.
C31_LogoutEndsSession == [][LogoutStep]_vars /\ []LogoutCall

C31_Witness ==
    /\ pc = "idle"
    /\ result.op = "logout"
    /\ result.kind = "Ok"
    /\ transport = "closed"
    /\ live = {}
    /\ ops = 2
    /\ trace = <<EvWrite("LOGOUT"), EvRead(Msg("resp", "OK", "none", "", <<>>)), EvClose>>

\* a greeting: zero or more capability lines and a response line tagged t
IsGreeting(m, t) == m.shape \in {"caps", "resp"} /\ m.tag = t

\* C32: connect writes nothing before it has read the greeting; a greeting
\* tagged OK whose announcement passes validation gives a (Plain,
\* Unauthenticated) Connection with exactly that snapshot; a greeting tagged
\* NO fails with the unexpected-NO error and an invalid announcement with
\* the validation error, both without a Connection.
C32_ConnectGreeting ==
    (pc = "idle" /\ result.op = "connect") =>
        /\ Len(trace) >= 1
        /\ IsRead(trace[1])
        /\ WritesOf(trace) = {}
        /\ LET m == trace[1][2]
               vc == verify_capabilities(m.list)
           IN  /\ (IsGreeting(m, "OK") /\ vc.ok) =>
                    /\ result.kind = "Ok"
                    /\ result.conn
                    /\ live = {Connection(ops, "Plain", "Unauth", vc.caps)}
                    /\ transport = "open"
               /\ IsGreeting(m, "NO") =>
                    /\ result.kind = "Err"
                    /\ result.err = "UnexpectedNo"
                    /\ ~result.conn
                    /\ live = {}
               /\ (IsGreeting(m, "OK") /\ ~vc.ok) =>
                    /\ result.kind = "Err"
                    /\ result.err = vc.err
                    /\ ~result.conn
                    /\ live = {}
               /\ result.kind = "Ok" => (IsGreeting(m, "OK") /\ vc.ok)

C32_Witness ==
    /\ pc = "idle"
    /\ result.op = "connect"
    /\ result.kind = "Ok"
    /\ trace = <<EvRead(Msg("caps", "OK", "none", "", AnnStartTls))>>
    /\ live = {Connection(1, "Plain", "Unauth", verify_capabilities(AnnStartTls).caps)}

\* a response line tagged OK or NO was the answer to a script operation
Replied == TextApplied({"reply"}) /\ input.desc.tag \in {"OK", "NO"}

\* C33: a script operation on an Authenticated connection that is answered
\* by a well-formed OK or NO response hands the Connection back, in the
\* result or inside the recoverable error; a NO, whatever its response
\* code, never drops it.
C33_ReplyKeepsConnection ==
    Replied => (output.r.conn /\ output.r.kind \in {"Ok", "Err"})

\* authenticate on its own: the state after a connect whose greeting was
\* OK with the plain announcement, and from there one call of authenticate
AuthInit ==
    /\ pc = "idle"
    /\ self = NoConn
    /\ \E in \in {Msg("caps", "OK", "none", "", AnnPlain)} :
        /\ capability_exchange(in, TRUE).kind = "Ok"
        /\ live = {Connection(1, "Plain", "Unauth", capability_exchange(in, TRUE).v)}
        /\ trace = ReadEvents(in, capability_exchange(in, TRUE))
    /\ transport = "open"
    /\ result = Res("connect", "Ok", "", "", TRUE)
    /\ ops = 1
    /\ outstanding = 0
    /\ unflushed = FALSE
    /\ session = NoSession
    /\ client_finished = FALSE
    /\ rounds = 0
    /\ input = None
    /\ output = None

\* the call of authenticate that follows the connect
FirstAuthenticate == result.op = "connect" /\ Authenticate

AuthNext ==
    \/ FirstAuthenticate
    \/ AuthRead
    \/ AuthAbortRead
    \/ AuthCapsRead

\* every read of the call delivers its message, its end of stream or its
\* error: the reads of authenticate are not postponed for ever
LiveSpec ==
    /\ AuthInit
    /\ [][AuthNext]_vars
    /\ WF_vars(AuthRead)
    /\ WF_vars(AuthAbortRead)
    /\ WF_vars(AuthCapsRead)

\* the moments of t from which the client considers itself finished: the
\* start of a call whose session starts Complete, and every resume that
\* reported Complete or CompleteWithFinalResponse
FinishedPoints(t, sess) ==
    (IF sess.init = "Complete" THEN {0} ELSE {})
        \cup {j \in 1..Len(t) : IsResume(t[j]) /\ is_finished(t[j][2])}

LoopReadsAfter(t, p) == {i \in (p + 1)..Len(t) : LoopRead(t, i)}

ReadsAfter(t, p) == {i \in (p + 1)..Len(t) : IsRead(t[i])}

WritesAfter(t, p) == {i \in (p + 1)..Len(t) : IsWrite(t[i]) \/ IsFailedWrite(t[i])}

\* between two lines the client writes it reads a message, and between two
\* messages it reads it writes a line
OneMessagePerIteration(t) ==
    /\ \A i, j \in WritesOf(t) : i < j => \E k \in (i + 1)..(j - 1) : IsRead(t[k])
    /\ \A i, j \in Reads(t) : i < j => \E k \in (i + 1)..(j - 1) : IsWrite(t[k])

AuthBounded ==
    result.op = "authenticate" =>
        /\ OneMessagePerIteration(trace)
        /\ Cardinality({i \in WritesOf(trace) : trace[i][2] = "CAPABILITY"}) <= 1
        /\ \A p \in FinishedPoints(trace, session) :
            /\ Cardinality(LoopReadsAfter(trace, p)) <= 1
            /\ Cardinality(ReadsAfter(trace, p)) <= 2
            /\ Cardinality(WritesAfter(trace, p)) <= 2
            /\ \A i \in LoopReadsAfter(trace, p) :
                /\ IsChallenge(trace[i][2]) =>
                    /\ i = Len(trace)
                    /\ pc = "idle"
                    /\ result.err = "UnexpectedServerResponse"
                /\ \A j \in WritesAfter(trace, i) : trace[j][2] = "CAPABILITY"

AuthFinished ==
    /\ result.op = "authenticate"
    /\ pc # "idle"
    /\ FinishedPoints(trace, session) # {}

C35_ResumeOnlyUnfinished ==
    result.op = "authenticate" =>
        /\ \A i \in 1..Len(trace) :
            IsResume(trace[i]) =>
                /\ ~FinishedBefore(trace, i, session)
                /\ LoopRead(trace, i - 1)
                /\ IsSaslData(trace[i - 1][2])
        /\ session.oneshot => \A i \in 1..Len(trace) : ~IsResume(trace[i])

C35_Witness ==
    /\ pc = "idle"
    /\ result.op = "authenticate"
    /\ session.oneshot
    /\ result.err = "UnexpectedServerResponse"
    /\ Len(trace) = 2
    /\ IsChallenge(trace[2][2])

\* authenticate returned and the caller holds an Unauthenticated Connection
ReturnsUnauthenticated ==
    /\ pc = "idle"
    /\ result.op = "authenticate"
    /\ result.conn
    /\ \E c \in live : c.auth = "Unauth"

\* C36: when authenticate hands back an Unauthenticated Connection the
\* AUTHENTICATE exchange is over on the wire: the last message read is a
\* tagged response, never a challenge string that still awaits a client line.
C36_ExchangeOverOnReturn ==
    ReturnsUnauthenticated =>
        \E m \in Messages :
            /\ LastRead(trace, m)
            /\ ~IsChallenge(m)
            /\ m.shape = "resp"
            /\ m.tag \in {"OK", "NO"}

\* C37: after the server answered the AUTHENTICATE exchange with OK,
\* authenticate hands back an Authenticated Connection or none, never one
\* typed Unauthenticated.
C37_NoUnauthenticatedAfterOk ==
    (pc = "idle" /\ result.op = "authenticate"
        /\ \E i \in 1..Len(trace) : LoopRead(trace, i) /\ IsLine(trace[i][2], "OK"))
        => \A c \in live : c.auth = "Auth"

\* the operations that build a Connection with a new snapshot
SnapshotOps == {"connect", "start_tls", "authenticate"}

\* caps is what verify_capabilities made of an announcement that has
\* IMPLEMENTATION, SIEVE and VERSION and no key twice
ValidSnapshot(caps) ==
    \E a \in Announcements :
        /\ HasKey(a, "Implementation")
        /\ HasKey(a, "Sieve")
        /\ HasKey(a, "Version")
        /\ ~RepeatsKey(a)
        /\ verify_capabilities(a).ok
        /\ caps = verify_capabilities(a).caps

SnapshotValid == \A c \in Held : ValidSnapshot(c.caps)

\* a step either is the successful return of connect, start_tls or
\* authenticate, and the Connection carries what verify_capabilities made of
\* the announcement just read, or it leaves the snapshot as it was
SnapshotStep ==
    \A d \in Held' :
        IF pc' = "idle" /\ result'.kind = "Ok" /\ result'.op \in SnapshotOps
        THEN \E m \in Messages :
                /\ LastRead(trace', m)
                /\ GoodAnnouncement(m)
                /\ d.caps = verify_capabilities(m.list).caps
        ELSE \E c \in Held : c.caps = d.caps

\* C38: every Connection that exists carries a snapshot that passed
\* validation, the one built by the most recent connect, start_tls or
\* authenticate that succeeded; no other step changes it.
C38_SnapshotInvariant == [][SnapshotStep]_vars /\ []SnapshotValid

C38_Witness ==
    /\ pc = "idle"
    /\ result.op \in ScriptOps
    /\ result.conn
    /\ \E c \in live :
        /\ c.auth = "Auth"
        /\ c.tls = "Tls"
        /\ c.caps = verify_capabilities(AnnAfterAuth).caps

\* start_tls or authenticate returned a Connection of the new phase
RefreshReturned ==
    /\ pc = "idle"
    /\ result.op \in {"start_tls", "authenticate"}
    /\ result.kind = "Ok"

\* every field of the snapshot is what the list l announces, and nothing else
HoldsOnly(caps, l) ==
    /\ caps.implementation = Announced(l, "Implementation")
    /\ caps.sieve = Announced(l, "Sieve")
    /\ caps.version = Announced(l, "Version")
    /\ caps.sasl = (IF HasKey(l, "Sasl") THEN Announced(l, "Sasl") ELSE <<>>)
    /\ caps.start_tls = HasKey(l, "StartTls")
    /\ caps.max_redirects = AnnouncedOrNone(l, "MaxRedirects")
    /\ caps.notify = AnnouncedOrNone(l, "Notify")
    /\ caps.language = AnnouncedOrNone(l, "Language")
    /\ caps.owner = AnnouncedOrNone(l, "Owner")
    /\ DOMAIN caps.others = UnknownKeys(l)
    /\ \A name \in UnknownKeys(l) : caps.others[name] = AnnouncedUnknown(l, name)

\* C39: the snapshot of the Connection that start_tls or authenticate
\* returns is a function of the announcement read after the upgrade or after
\* the SASL exchange alone: each field is what that announcement says, so
\* two runs with different earlier snapshots and the same new announcement
\* end with the same snapshot.
C39_SnapshotFromNewAnnouncement ==
    RefreshReturned =>
        \A c \in live :
            \E m \in Messages :
                /\ LastRead(trace, m)
                /\ HasRequired(m.list)
                /\ HoldsOnly(c.caps, m.list)

\* the snapshot before start_tls announced STARTTLS and PLAIN, the new one
\* announces neither
C39_Witness ==
    /\ RefreshReturned
    /\ result.op = "start_tls"
    /\ \E c \in live :
        /\ c.caps = verify_capabilities(AnnPlain).caps
        /\ ~c.caps.start_tls
        /\ c.caps.sasl = <<>>

\* C40: SASL data the server sends during authenticate, a challenge string
\* or the payload of an OK, leads to a returned result whatever its bytes:
\* an Authenticated Connection, a typed authentication error or an error
\* value, never an abort of the program.
C40_SaslDataReturnsResult ==
    (pc = "idle" /\ result.op = "authenticate"
        /\ \E i \in 1..Len(trace) : LoopRead(trace, i) /\ IsSaslData(trace[i][2]))
        => result.kind \in {"Ok", "AuthError", "Err"}
====
